---- MODULE Spec2Model ----
(***************************************************************************)
(* State-machine model of the WhatsApp-clone backend:                      *)
(*   whatsapp-backend/src/processPayload.ts  (webhook normalisation),      *)
(*   whatsapp-backend/src/models.ts          (the message schema),         *)
(*   whatsapp-backend/src/routes.ts          (HTTP routes),                *)
(*   controllers.ts (src/unnamed/part_000)   (sendMessage, status update), *)
(*   index.ts       (src/unnamed/part_001)   (socket handlers).            *)
(*                                                                         *)
(* Strings that the code only compares or copies are TLA+ strings.  Phone  *)
(* numbers and conversation ids are sequences of one-character strings,    *)
(* because the code takes them apart (extractPhoneNumber) and glues them   *)
(* together (`conv_${userNumber}`).  An absent or empty JavaScript string  *)
(* is the empty string / empty sequence wherever the code only tests its   *)
(* truthiness; where the code distinguishes undefined from '' the model    *)
(* uses the string "undefined".                                            *)
(***************************************************************************)
EXTENDS Integers, Sequences, FiniteSets, Bags, TLC

VARIABLES
    store,      \* the processed_messages collection, in insertion order
    events,     \* every io.to(channel).emit(...) so far, in order
    pending,    \* the handlers suspended at an await: a bag of continuations
    response,   \* the answer most recently given to a caller
    now,        \* Date.now(), in milliseconds
    rooms,      \* the connected sockets, each with the rooms it is in
    inbox       \* what each client has received, in order

vars == <<store, events, pending, response, now, rooms, inbox>>

(***************************************************************************)
(* Bounds of the model.                                                    *)
(***************************************************************************)
MaxStore == 2       \* records the collection may hold
MaxEvents == 1      \* events that may be published
MaxPending == 2     \* handlers that may be suspended at the same time

(***************************************************************************)
(* Characters, phone numbers, conversation ids.                            *)
(***************************************************************************)
Digits == {"0", "1", "2", "3", "4", "5", "6", "7", "8", "9"}

\* '918329446654', the fallback business number of processMessage
DefaultBusinessNumber ==
    <<"9", "1", "8", "3", "2", "9", "4", "4", "6", "6", "5", "4">>

ConvPrefix == <<"c", "o", "n", "v", "_">>

\* a string field that the envelope does not carry: JavaScript's undefined,
\* which differs from the empty string <<>>
Undefined == <<"undefined">>

\* `${value}`: a template literal renders undefined as its name
templateOf(value) ==
    IF value = Undefined THEN <<"u", "n", "d", "e", "f", "i", "n", "e", "d">> ELSE value

\* phoneNumber.replace(/[^\d+]/g, '')
RECURSIVE StripNonNumeric(_)
StripNonNumeric(s) ==
    IF s = <<>> THEN <<>>
    ELSE IF Head(s) \in Digits \cup {"+"}
         THEN <<Head(s)>> \o StripNonNumeric(Tail(s))
         ELSE StripNonNumeric(Tail(s))

\* extractPhoneNumber: null for a falsy argument, else the cleaned number
\* without one leading '+'.  null is rendered by the template literal of
\* getConversationId as the four characters "null".
extractPhoneNumber(phoneNumber) ==
    IF phoneNumber = <<>> THEN <<"n", "u", "l", "l">>
    ELSE LET cleaned == StripNonNumeric(phoneNumber)
         IN  IF cleaned # <<>> /\ Head(cleaned) = "+" THEN Tail(cleaned)
             ELSE cleaned

getConversationId(userNumber, businessNumber) ==
    ConvPrefix \o extractPhoneNumber(userNumber)

(***************************************************************************)
(* The message schema (models.ts) and the collection.                      *)
(***************************************************************************)
SchemaStatuses == {"pending", "sent", "delivered", "read"}

NaN == -1           \* parseInt of an absent or non-numeric timestamp

\* new Message({...}): the document as constructed, before it is saved
NewDoc(conversationId, messageId, from, to, timestamp, type, body, status, userName) ==
    [ _id |-> 0, conversationId |-> conversationId, messageId |-> messageId,
      from |-> from, to |-> to, timestamp |-> timestamp, type |-> type,
      body |-> body, status |-> status, userName |-> userName, updatedAt |-> 0 ]

NoDoc == NewDoc(<<>>, "", <<>>, <<>>, 0, "", "", "", "")

\* Mongoose validation on save(): required paths (a required String must be
\* non-empty, a Date must be a valid date) and the enum of status.
Validates(doc) ==
    /\ doc.conversationId # <<>>
    /\ doc.messageId # ""
    /\ doc.from \notin {<<>>, Undefined}
    /\ doc.to \notin {<<>>, Undefined}
    /\ doc.timestamp # NaN
    /\ doc.type # ""
    /\ doc.status \in SchemaStatuses

\* doc.save() of a valid document: the collection accepts it whatever ids it
\* already holds (the index on messageId is not unique); timestamps: true
\* stamps updatedAt (and createdAt, which nothing reads and the model omits).
Insert(st, doc, t) ==
    Append(st, [doc EXCEPT !._id = Len(st) + 1, !.updatedAt = t])

\* positions of the documents matching { messageId }
Matching(st, messageId) == {i \in 1..Len(st) : st[i].messageId = messageId}

Min(S) == CHOOSE i \in S : \A j \in S : i <= j

\* Message.findOne({ messageId }): the first match, or NoDoc
findOne(st, messageId) ==
    IF Matching(st, messageId) = {} THEN NoDoc
    ELSE st[Min(Matching(st, messageId))]

\* an update that replaces the matched document by { status, updatedAt }
\* instead of setting the two fields
SetStatusOverwriting(st, messageId, status, t) ==
    IF Matching(st, messageId) = {} THEN st
    ELSE [st EXCEPT ![Min(Matching(st, messageId))] =
                [NoDoc EXCEPT !.messageId = messageId, !.status = status, !.updatedAt = t]]

\* Message.updateOne / findOneAndUpdate({ messageId }, { status, updatedAt }):
\* one atomic write to the first match; update validators are off, so the
\* status is stored as given.
SetStatus(st, messageId, status, t) ==
    IF Matching(st, messageId) = {} THEN st
    ELSE [st EXCEPT ![Min(Matching(st, messageId))] =
                [@ EXCEPT !.status = status, !.updatedAt = t]]

\* Message.updateOne({ _id }, { status, updatedAt })
SetStatusById(st, id, status, t) ==
    [i \in 1..Len(st) |->
        IF st[i]._id = id THEN [st[i] EXCEPT !.status = status, !.updatedAt = t]
        ELSE st[i]]

(***************************************************************************)
(* Webhook envelopes (processPayload.ts, the WhatsApp* interfaces).        *)
(***************************************************************************)
NoMetadata == [phone_number_id |-> <<>>, display_phone_number |-> <<>>]

WaMessage(id, from, to, timestamp, type, content) ==
    [ id |-> id, from |-> from, to |-> to, timestamp |-> timestamp, type |-> type,
      textBody |-> IF type = "text" THEN content ELSE "",
      imageCaption |-> IF type = "image" THEN content ELSE "",
      documentFilename |-> IF type = "document" THEN content ELSE "",
      videoCaption |-> IF type = "video" THEN content ELSE "" ]

WaStatus(id, meta_msg_id, status) ==
    [id |-> id, meta_msg_id |-> meta_msg_id, status |-> status]

\* value.messages / value.statuses are present (hasX) or undefined
WaValue(metadata, contactName, hasMessages, messages, hasStatuses, statuses) ==
    [ present |-> TRUE, metadata |-> metadata, contactName |-> contactName,
      hasMessages |-> hasMessages, messages |-> messages,
      hasStatuses |-> hasStatuses, statuses |-> statuses ]

NoValue == [WaValue(NoMetadata, "", FALSE, <<>>, FALSE, <<>>) EXCEPT !.present = FALSE]

\* { metaData: { entry: [ { changes: [ { value } ] } ] } }
Payload(values) == [entry |-> <<[changes |-> [i \in 1..Len(values) |-> [value |-> values[i]]]]>>]

NoEntryPayload == [entry |-> <<>>]

\* String.prototype.toUpperCase on the message types of the model
toUpperCase(t) ==
    CASE t = "text" -> "TEXT"
      [] t = "image" -> "IMAGE"
      [] t = "document" -> "DOCUMENT"
      [] t = "audio" -> "AUDIO"
      [] t = "video" -> "VIDEO"
      [] t = "sticker" -> "STICKER"
      [] t = "location" -> "LOCATION"
      [] OTHER -> t

\* a alone, where the code has a || b
OrNothing(a, b) == a

\* a || b on strings
OrElse(a, b) == IF a = "" THEN b ELSE a

\* processMessage, lines 114-116: the business number and the other party
businessNumberOf(metadata) ==
    IF metadata.phone_number_id # <<>> THEN metadata.phone_number_id
    ELSE IF metadata.display_phone_number # <<>> THEN metadata.display_phone_number
    ELSE DefaultBusinessNumber

userNumberOf(message, businessNumber) ==
    IF message.from # businessNumber THEN message.from
    ELSE IF message.to = Undefined THEN <<>>
    ELSE message.to

conversationIdOf(userNumber, businessNumber) == ConvPrefix \o templateOf(userNumber)

\* the body as it would be if it were always text.body
messageBodyOfTextOnly(message) == message.textBody

\* processMessage, lines 123-137: the display body per type
messageBodyOf(message) ==
    CASE message.type = "text" -> message.textBody
      [] message.type = "image" ->
            IF message.imageCaption # "" THEN message.imageCaption ELSE "[Image]"
      [] message.type = "document" ->
            IF message.documentFilename # "" THEN message.documentFilename ELSE "[Document]"
      [] message.type = "audio" -> "[Voice Message]"
      [] message.type = "video" ->
            IF message.videoCaption # "" THEN message.videoCaption ELSE "[Video]"
      [] OTHER -> "[" \o toUpperCase(message.type) \o "]"

\* message.type.toUpperCase() throws a TypeError when type is undefined
bodyThrows(message) == message.type = "undefined"

\* processMessage, lines 139-149
newMessageOf(value, message) ==
    LET businessNumber == businessNumberOf(value.metadata)
        userNumber == userNumberOf(message, businessNumber)
        isFromBusiness == message.from = businessNumber
    IN  NewDoc(conversationIdOf(userNumber, businessNumber),
               message.id,
               message.from,
               IF isFromBusiness THEN userNumber ELSE businessNumber,
               IF message.timestamp = NaN THEN NaN ELSE message.timestamp * 1000,
               IF message.type = "" THEN "text" ELSE message.type,
               messageBodyOf(message),
               "sent",
               IF value.contactName # "" THEN value.contactName
               ELSE IF isFromBusiness THEN "Business" ELSE "Unknown User")

\* What a handler step hands on: where the handler continues (pc), the
\* document it carries, the store after the step, how the step ended, and
\* the HTTP status it answered with (0: no answer yet, or no HTTP caller).
Step(pc, doc, st, outcome, code) ==
    [pc |-> pc, doc |-> doc, store |-> st, outcome |-> outcome, code |-> code]

\* processMessage as it would be without the findOne check of lines 106-111
processMessageNoDedup(value, st) ==
    IF value.messages = <<>> \/ value.messages[1].id = ""
    THEN Step("idle", NoDoc, st, "invalidMessage", 200)
    ELSE IF bodyThrows(value.messages[1])
    THEN Step("idle", NoDoc, st, "threw", 500)
    ELSE Step("save", newMessageOf(value, value.messages[1]), st, "saving", 0)

\* processMessage up to the await of save()
processMessage(value, st) ==
    IF value.messages = <<>> \/ value.messages[1].id = ""
    THEN Step("idle", NoDoc, st, "invalidMessage", 200)
    ELSE LET message == value.messages[1]
         IN  IF findOne(st, message.id) # NoDoc
             THEN Step("idle", NoDoc, st, "duplicate", 200)
             ELSE IF bodyThrows(message)
             THEN Step("idle", NoDoc, st, "threw", 500)
             ELSE Step("save", newMessageOf(value, message), st, "saving", 0)

\* newMessage.save() and what follows it in processMessage
saveMessage(doc, st, t) ==
    IF Validates(doc)
    THEN Step("idle", NoDoc, Insert(st, doc, t), "inserted", 200)
    ELSE Step("idle", NoDoc, st, "threw", 500)

WebhookStatuses == {"sent", "delivered", "read"}

\* processStatusUpdate as it would be if it went through the whole list
RECURSIVE SetStatuses(_, _, _)
SetStatuses(st, statuses, t) ==
    IF statuses = <<>> THEN st
    ELSE SetStatuses(SetStatus(st, OrElse(Head(statuses).id, Head(statuses).meta_msg_id),
                               Head(statuses).status, t),
                     Tail(statuses), t)

processStatusUpdateEach(value, st, t) ==
    IF value.statuses = <<>> THEN Step("idle", NoDoc, st, "noStatus", 200)
    ELSE Step("idle", NoDoc, SetStatuses(st, value.statuses, t), "updated", 200)

\* processStatusUpdate as it would be with { upsert: true }: an update that
\* matches nothing inserts a document with the filter's and the update's fields
processStatusUpdateUpserting(value, st, t) ==
    IF value.statuses = <<>> THEN Step("idle", NoDoc, st, "noStatus", 200)
    ELSE LET statusUpdate == value.statuses[1]
             messageId == OrElse(statusUpdate.id, statusUpdate.meta_msg_id)
         IN  IF messageId = "" THEN Step("idle", NoDoc, st, "noMessageId", 200)
             ELSE IF statusUpdate.status \notin WebhookStatuses
             THEN Step("idle", NoDoc, st, "invalidStatus", 200)
             ELSE IF Matching(st, messageId) # {}
             THEN Step("idle", NoDoc, SetStatus(st, messageId, statusUpdate.status, t),
                       "updated", 200)
             ELSE Step("idle", NoDoc,
                       Insert(st, [NoDoc EXCEPT !.messageId = messageId,
                                                !.status = statusUpdate.status], t),
                       "updated", 200)

\* processStatusUpdate
processStatusUpdate(value, st, t) ==
    IF value.statuses = <<>> THEN Step("idle", NoDoc, st, "noStatus", 200)
    ELSE LET statusUpdate == value.statuses[1]
             messageId == OrElse(statusUpdate.id, statusUpdate.meta_msg_id)
         IN  IF messageId = "" THEN Step("idle", NoDoc, st, "noMessageId", 200)
             ELSE IF statusUpdate.status \notin WebhookStatuses
             THEN Step("idle", NoDoc, st, "invalidStatus", 200)
             ELSE IF Matching(st, messageId) # {}
             THEN Step("idle", NoDoc, SetStatus(st, messageId, statusUpdate.status, t),
                       "updated", 200)
             ELSE Step("idle", NoDoc, st, "notFound", 200)

\* processWebhookPayload as it would be if it looked at value.statuses
\* before value.messages
processWebhookPayloadStatusFirst(payload, st, t) ==
    IF payload.entry = <<>> THEN Step("idle", NoDoc, st, "noEntry", 200)
    ELSE LET entry == payload.entry[1]
             value == IF entry.changes = <<>> THEN NoValue ELSE entry.changes[1].value
         IN  IF ~value.present THEN Step("idle", NoDoc, st, "noValue", 200)
             ELSE IF value.hasStatuses THEN processStatusUpdate(value, st, t)
             ELSE IF value.hasMessages THEN processMessage(value, st)
             ELSE Step("idle", NoDoc, st, "unknownPayload", 200)

\* processWebhookPayload as it would be if it threw where lines 68-71,
\* 76-79 and 85-87 log and return
processWebhookPayloadStrict(payload, st, t) ==
    IF payload.entry = <<>> THEN Step("idle", NoDoc, st, "threw", 500)
    ELSE LET entry == payload.entry[1]
             value == IF entry.changes = <<>> THEN NoValue ELSE entry.changes[1].value
         IN  IF ~value.present THEN Step("idle", NoDoc, st, "threw", 500)
             ELSE IF value.hasMessages THEN processMessage(value, st)
             ELSE IF value.hasStatuses THEN processStatusUpdate(value, st, t)
             ELSE Step("idle", NoDoc, st, "threw", 500)

\* processWebhookPayload behind POST /webhook, up to its first await that
\* another handler can interleave with
processWebhookPayload(payload, st, t) ==
    IF payload.entry = <<>> THEN Step("idle", NoDoc, st, "noEntry", 200)
    ELSE LET entry == payload.entry[1]
             value == IF entry.changes = <<>> THEN NoValue ELSE entry.changes[1].value
         IN  IF ~value.present THEN Step("idle", NoDoc, st, "noValue", 200)
             ELSE IF value.hasMessages THEN processMessage(value, st)
             ELSE IF value.hasStatuses THEN processStatusUpdate(value, st, t)
             ELSE Step("idle", NoDoc, st, "unknownPayload", 200)

\* the outcomes processWebhookPayload reaches without calling the store
WithoutStoreCall ==
    {"noEntry", "noValue", "unknownPayload", "invalidMessage", "noStatus", "noMessageId",
     "invalidStatus"}

\* processWebhookPayload when the store may be out of reach: its first store
\* call (findOne, updateOne) then rejects, and the catch blocks rethrow
processWebhookPayloadOn(payload, st, t, reachable) ==
    LET r == processWebhookPayload(payload, st, t)
    IN  IF reachable \/ r.outcome \in WithoutStoreCall THEN r
        ELSE Step("idle", NoDoc, st, "threw", 0)

\* newMessage.save() when the store may be out of reach
saveMessageOn(doc, st, t, reachable) ==
    IF reachable THEN saveMessage(doc, st, t)
    ELSE Step("idle", NoDoc, st, "threw", 0)

\* POST /webhook as it would be without its try/catch: the rejection of the
\* async handler is handled by nobody
webhookRouteUncaught(r) ==
    IF r.outcome = "threw" THEN [r EXCEPT !.outcome = "unhandledRejection", !.code = 0]
    ELSE IF r.pc = "idle" THEN [r EXCEPT !.code = 200]
    ELSE r

\* POST /webhook (routes.ts): 200 when processWebhookPayload returns, 500
\* when it throws
webhookRoute(r) ==
    IF r.outcome = "threw" THEN [r EXCEPT !.code = 500]
    ELSE IF r.pc = "idle" THEN [r EXCEPT !.code = 200]
    ELSE r

(***************************************************************************)
(* HTTP controllers (controllers.ts) and the socket handler (index.ts).    *)
(***************************************************************************)
\* String.prototype.trim on the bodies of the model
trim(body) ==
    CASE body = " hi " -> "hi"
      [] body = "  " -> ""
      [] OTHER -> body

SendRequest(conversationId, from, to, body, userName) ==
    [conversationId |-> conversationId, from |-> from, to |-> to, body |-> body,
     userName |-> userName]

\* `msg_${Date.now()}_${Math.random().toString(36).substr(2, 9)}`
generatedMessageId(t, random) == "msg_" \o ToString(t) \o "_" \o random

\* sendMessage as it would be without the check of lines 113-116
sendMessageUnvalidated(req, random, st, t) ==
    LET newMessage == NewDoc(req.conversationId, generatedMessageId(t, random),
                             req.from, req.to, t, "text", trim(req.body), "sent",
                             OrElse(req.userName, "Business"))
    IN  IF Validates(newMessage)
        THEN Step("emitNewMessage", Insert(st, newMessage, t)[Len(st) + 1],
                  Insert(st, newMessage, t), "saved", 0)
        ELSE Step("idle", NoDoc, st, "threw", 500)

\* sendMessage up to and including the await of save()
sendMessage(req, random, st, t) ==
    IF req.conversationId = <<>> \/ req.from = <<>> \/ req.to = <<>> \/ req.body = ""
    THEN Step("idle", NoDoc, st, "validationError", 400)
    ELSE LET newMessage == NewDoc(req.conversationId, generatedMessageId(t, random),
                                  req.from, req.to, t, "text", trim(req.body), "sent",
                                  OrElse(req.userName, "Business"))
         IN  IF Validates(newMessage)
             THEN Step("emitNewMessage", Insert(st, newMessage, t)[Len(st) + 1],
                       Insert(st, newMessage, t), "saved", 0)
             ELSE Step("idle", NoDoc, st, "threw", 500)

HttpStatuses == {"sent", "delivered", "read"}

\* updateMessageStatus as it would be if it applied a status only to a
\* message whose status is the one just before it (sent, then delivered,
\* then read) and answered 409 otherwise
updateMessageStatusStepwise(messageId, status, st, t) ==
    IF messageId = "" \/ status = ""
    THEN Step("idle", NoDoc, st, "validationError", 400)
    ELSE IF status \notin HttpStatuses
    THEN Step("idle", NoDoc, st, "invalidStatus", 400)
    ELSE IF Matching(st, messageId) = {}
    THEN Step("idle", NoDoc, st, "notFound", 404)
    ELSE IF <<findOne(st, messageId).status, status>>
               \notin {<<"pending", "sent">>, <<"sent", "delivered">>, <<"delivered", "read">>}
    THEN Step("idle", NoDoc, st, "rejected", 409)
    ELSE Step("emitStatus", findOne(SetStatus(st, messageId, status, t), messageId),
              SetStatus(st, messageId, status, t), "updated", 0)

\* updateMessageStatus as it would be without { new: true }: findOneAndUpdate
\* then returns the document as it was before the update
updateMessageStatusReturningOld(messageId, status, st, t) ==
    IF messageId = "" \/ status = ""
    THEN Step("idle", NoDoc, st, "validationError", 400)
    ELSE IF status \notin HttpStatuses
    THEN Step("idle", NoDoc, st, "invalidStatus", 400)
    ELSE IF Matching(st, messageId) = {}
    THEN Step("idle", NoDoc, st, "notFound", 404)
    ELSE Step("emitStatus", findOne(st, messageId),
              SetStatus(st, messageId, status, t), "updated", 0)

\* updateMessageStatus up to and including the await of findOneAndUpdate()
updateMessageStatus(messageId, status, st, t) ==
    IF messageId = "" \/ status = ""
    THEN Step("idle", NoDoc, st, "validationError", 400)
    ELSE IF status \notin HttpStatuses
    THEN Step("idle", NoDoc, st, "invalidStatus", 400)
    ELSE IF Matching(st, messageId) = {}
    THEN Step("idle", NoDoc, st, "notFound", 404)
    ELSE Step("emitStatus", findOne(SetStatus(st, messageId, status, t), messageId),
              SetStatus(st, messageId, status, t), "updated", 0)

\* POST /simulate-status (routes.ts): its own check, then updateMessageStatus
simulateStatusRoute(messageId, status, st, t) ==
    IF messageId = "" \/ status = ""
    THEN Step("idle", NoDoc, st, "validationError", 400)
    ELSE updateMessageStatus(messageId, status, st, t)

\* socket.on('simulate-status-update') up to and including the await
simulateStatusUpdate(data, st, t) ==
    IF Matching(st, data.messageId) = {}
    THEN Step("idle", NoDoc, st, "notFound", 0)
    ELSE Step("emitStatus",
              findOne(SetStatus(st, data.messageId, data.status, t), data.messageId),
              SetStatus(st, data.messageId, data.status, t), "updated", 0)

\* the permutations of 1..n
IndexOrders(n) ==
    {p \in [1..n -> 1..n] : \A i, j \in 1..n : i # j => p[i] # p[j]}

\* { $sort: { timestamp: 1 } } / .sort({ timestamp: 1 }): the documents in
\* an order of non-decreasing timestamp; which of two documents with equal
\* timestamps comes first is not defined, so every such order is a result
sortByTimestamp(docs) ==
    {[i \in 1..Len(docs) |-> docs[p[i]]] :
        p \in {q \in IndexOrders(Len(docs)) :
                  \A i, j \in 1..Len(docs) :
                      i < j => docs[q[i]].timestamp <= docs[q[j]].timestamp}}

\* the documents of docs, in their order, that belong to conversationId
ofConversation(docs, conversationId) ==
    LET Belongs(doc) == doc.conversationId = conversationId
    IN  SelectSeq(docs, Belongs)

\* what $push collects for one document: { userName, from }, or null for a
\* document whose userName is 'Business'; an absent value is "missing"
CustomerEntry(kind, userName, from) == [kind |-> kind, userName |-> userName, from |-> from]
NullEntry == CustomerEntry("null", "", <<>>)
MissingEntry == CustomerEntry("missing", "", <<>>)

customerMessageOf(doc) ==
    IF doc.userName # "Business" THEN CustomerEntry("document", doc.userName, doc.from)
    ELSE NullEntry

\* { $first: '$$ROOT' }, the other end of the group
firstMessageOf(docs) == docs[1]

\* { $last: '$$ROOT' }
lastMessageOf(docs) == docs[Len(docs)]

\* the count as it would be if only the customer's messages were counted
customerMessageCountOf(docs) ==
    Cardinality({i \in 1..Len(docs) : docs[i].userName # "Business"})

\* { $sum: 1 }
messageCountOf(docs) == Len(docs)

\* the $group stage for one _id, over the documents as $sort hands them on
group(sorted, conversationId) ==
    LET docs == ofConversation(sorted, conversationId)
    IN  [ _id |-> conversationId,
          lastMessage |-> lastMessageOf(docs),
          messageCount |-> messageCountOf(docs),
          participants |-> {docs[i].userName : i \in 1..Len(docs)},
          customerMessages |-> [i \in 1..Len(docs) |-> customerMessageOf(docs[i])] ]

\* { $arrayElemAt: [array, 0] }: no value when the array is empty
arrayElemAt0(array) == IF array = <<>> THEN MissingEntry ELSE array[1]

\* { $eq: [value, null] }: a missing value is not equal to null
eqNull(value) == value.kind = "null"

\* the characters of a string, glued together
RECURSIVE Join(_)
Join(chars) == IF chars = <<>> THEN "" ELSE Head(chars) \o Join(Tail(chars))

\* { $concat: ['+', { $substrCP: ['$_id', 5, strLenCP - 5] }] }
synthesizedName(conversationId) ==
    "+" \o Join(SubSeq(conversationId, 6, Len(conversationId)))

\* the userName of the $project stage; a missing $$customer has no
\* userName, and the summary then has no userName field ("undefined")
projectedUserName(g) ==
    LET IsCustomer(msg) == ~eqNull(msg)
        customer == arrayElemAt0(SelectSeq(g.customerMessages, IsCustomer))
    IN  IF eqNull(customer) THEN synthesizedName(g._id)
        ELSE IF customer.kind = "missing" THEN "undefined"
        ELSE customer.userName

\* the $project stage
project(g) ==
    [ conversationId |-> g._id,
      lastMessageBody |-> g.lastMessage.body,
      lastTimestamp |-> g.lastMessage.timestamp,
      messageCount |-> g.messageCount,
      participants |-> g.participants,
      userName |-> projectedUserName(g) ]

\* the orders in which the elements of the set S can be listed
Orderings(S) ==
    {f \in [1..Cardinality(S) -> S] :
        \A i, j \in 1..Cardinality(S) : i # j => f[i] # f[j]}

\* { $sort: { lastTimestamp: 1 } }, the other way round
sortByLastTimestampAscending(summaries) ==
    {f \in Orderings(summaries) :
        \A i, j \in 1..Len(f) : i < j => f[i].lastTimestamp <= f[j].lastTimestamp}

\* { $sort: { lastTimestamp: -1 } }; the order of summaries with equal
\* lastTimestamp is not defined
sortByLastTimestamp(summaries) ==
    {f \in Orderings(summaries) :
        \A i, j \in 1..Len(f) : i < j => f[i].lastTimestamp >= f[j].lastTimestamp}

\* getConversations: the results the aggregation can return for a collection
getConversations(st) ==
    UNION { sortByLastTimestamp(
                {project(group(sorted, conversationId)) :
                    conversationId \in {st[i].conversationId : i \in 1..Len(st)}}) :
            sorted \in sortByTimestamp(st) }

\* what a read handler answers: the HTTP status and the JSON body
ReadResponse(kind, code, body) ==
    [kind |-> kind, outcome |-> "ok", code |-> code, body |-> body]

\* getMessagesByConversation as it would be with find({}) for its query
getMessagesOfAllConversations(conversationId, st) ==
    {ReadResponse("messages", 200, sorted) : sorted \in sortByTimestamp(st)}

\* getMessagesByConversation: the answers it can give
getMessagesByConversation(conversationId, st) ==
    IF conversationId = <<>> THEN {ReadResponse("messages", 400, <<>>)}
    ELSE {ReadResponse("messages", 200, sorted) :
             sorted \in sortByTimestamp(ofConversation(st, conversationId))}

\* io.to(channel).emit(name, ...)
Event(channel, name, messageId, status, updatedAt, message) ==
    [channel |-> channel, name |-> name, messageId |-> messageId, status |-> status,
     updatedAt |-> updatedAt, message |-> message]

\* io.to(savedMessage.conversationId).emit('new-message', savedMessage)
newMessageEvent(doc) ==
    Event(doc.conversationId, "new-message", doc.messageId, doc.status, doc.updatedAt, doc)

\* io.to(updatedMessage.conversationId).emit('message-status-updated',
\*    { messageId, status, updatedAt: updatedMessage.updatedAt });
\* messageId and status are the request's, which the returned document
\* ({ new: true }) carries
statusEvent(doc) ==
    Event(doc.conversationId, "message-status-updated", doc.messageId, doc.status,
          doc.updatedAt, NoDoc)

(***************************************************************************)
(* Inputs of the model.                                                    *)
(***************************************************************************)
User == <<"5", "1">>
UserPlus == <<"+", "5", "1">>
Conv(number) == ConvPrefix \o number

MessageValue(contactName, message) ==
    WaValue(NoMetadata, contactName, TRUE, <<message>>, FALSE, <<>>)

StatusValue(status) == WaValue(NoMetadata, "", FALSE, <<>>, TRUE, <<status>>)

MessagePayloads ==
    { Payload(<<MessageValue("Ann", WaMessage("m1", User, <<>>, 1, "text", "hi"))>>),
      Payload(<<MessageValue("", WaMessage("m2", User, <<>>, 1, "undefined", ""))>>),
      Payload(<<MessageValue("", WaMessage("", User, <<>>, 1, "text", "hi"))>>) }

\* new-message envelopes in their variety: sender formats, business-sent
\* messages with and without a recipient, missing fields
IngestPayloads ==
    { Payload(<<MessageValue("Ann", WaMessage("m1", User, <<>>, 1, "text", "hi"))>>),
      Payload(<<MessageValue("", WaMessage("m2", UserPlus, <<>>, 2, "image", ""))>>),
      Payload(<<MessageValue("", WaMessage("m2", DefaultBusinessNumber, User, 2, "text", "yo"))>>),
      Payload(<<MessageValue("", WaMessage("m2", DefaultBusinessNumber, <<>>, 2, "text", "yo"))>>),
      Payload(<<MessageValue("", WaMessage("m1", User, <<>>, 1, "undefined", ""))>>),
      Payload(<<MessageValue("", WaMessage("m2", Undefined, Undefined, 1, "text", "hi"))>>),
      Payload(<<MessageValue("", WaMessage("m2", <<>>, <<>>, 1, "text", "hi"))>>),
      Payload(<<MessageValue("", WaMessage("m1", User, <<>>, NaN, "sticker", ""))>>) }

\* the metadata an envelope may carry: none, the display number only, or
\* the phone number id (an id of the business account, not a phone number)
\* together with the display number
PhoneNumberId == <<"7", "7">>
Metadatas ==
    { NoMetadata,
      [phone_number_id |-> <<>>, display_phone_number |-> DefaultBusinessNumber],
      [phone_number_id |-> PhoneNumberId, display_phone_number |-> DefaultBusinessNumber] }

\* the two directions of one conversation, under each metadata: the user
\* writes to the business, the business writes to the user
PartyPayloads ==
    { Payload(<<WaValue(metadata, "", TRUE,
                        <<WaMessage("m1", User, <<>>, 1, "text", "hi")>>, FALSE, <<>>)>>) :
        metadata \in Metadatas }
    \cup { Payload(<<WaValue(metadata, "", TRUE,
                             <<WaMessage("m2", DefaultBusinessNumber, User, 2, "text", "yo")>>,
                             FALSE, <<>>)>>) :
             metadata \in Metadatas }

User2 == <<"5", "2">>

\* envelopes for the read side: the user's and the business's messages of
\* one conversation with timestamps that differ from the order of arrival
\* or coincide, and a second conversation that holds a business message only
ReadPayloads ==
    { Payload(<<MessageValue("Ann", WaMessage("m1", User, <<>>, 2, "text", "hi"))>>),
      Payload(<<MessageValue("", WaMessage("m2", DefaultBusinessNumber, User, 1, "text", "yo"))>>),
      Payload(<<MessageValue("Bob", WaMessage("m3", User, <<>>, 2, "text", "ho"))>>),
      Payload(<<MessageValue("", WaMessage("m4", DefaultBusinessNumber, User2, 3, "text", "ok"))>>) }

ReadConversationIds == {Conv(User), Conv(User2)}

StatusPayloads ==
    { Payload(<<StatusValue(WaStatus("m1", "", status))>>) :
        status \in {"sent", "delivered", "read", "failed"} }
    \cup { Payload(<<StatusValue(WaStatus("m9", "", "read"))>>) }

OtherPayloads == { NoEntryPayload }

Payloads == MessagePayloads \cup StatusPayloads \cup OtherPayloads

SendRequests ==
    { SendRequest(Conv(User), DefaultBusinessNumber, User, " hi ", ""),
      SendRequest(Conv(User), DefaultBusinessNumber, User, "", "") }

Randoms == {"a"}

\* the instants at which the model looks at the clock
Instants == {0, 1000}

RequestIds == {"m1", "m9"}

\* the clients that listen, and the conversations they and the senders name
Sockets == {"s1", "s2"}
Channels == {Conv(User), Conv(User2)}
FanoutRequests ==
    { SendRequest(channel, DefaultBusinessNumber, User, "hi", "") : channel \in Channels }
\* an upstream message whose id is one that sendMessage can generate
SendPayloads ==
    { Payload(<<MessageValue("Ann", WaMessage(generatedMessageId(0, "a"), User, <<>>, 1,
                                              "text", "hi"))>>) }

\* the instants at which the timer's model looks at the clock: after its
\* first run is due, and long enough after that for its second loop
TimerInstants == {15000, 50000}

\* one message from upstream, and a status for it
TimerPayloads ==
    { Payload(<<MessageValue("Ann", WaMessage("m1", User, <<>>, 1, "text", "hi"))>>),
      Payload(<<StatusValue(WaStatus("m1", "", "delivered"))>>) }

FanoutPayloads ==
    { Payload(<<MessageValue("Ann", WaMessage("m1", User, <<>>, 1, "text", "hi"))>>) }

\* direct sends that lack one of the four required fields, and one that
\* lacks none
ValidationRequests ==
    { SendRequest(Conv(User), DefaultBusinessNumber, User, "hi", ""),
      SendRequest(<<>>, DefaultBusinessNumber, User, "hi", ""),
      SendRequest(Conv(User), <<>>, User, "hi", ""),
      SendRequest(Conv(User), DefaultBusinessNumber, <<>>, "hi", ""),
      SendRequest(Conv(User), DefaultBusinessNumber, User, "", "Ann") }

\* the message ids and statuses of the status requests that may lack either
ValidationIds == {"m1", ""}
ValidationStatuses == {"read", ""}


\* envelopes that make processWebhookPayload throw (a message without a
\* type, a message whose timestamp does not parse) beside ones that do not
FailurePayloads ==
    { Payload(<<MessageValue("Ann", WaMessage("m1", User, <<>>, 1, "text", "hi"))>>),
      Payload(<<MessageValue("", WaMessage("m2", User, <<>>, 1, "undefined", ""))>>),
      Payload(<<MessageValue("", WaMessage("m3", User, <<>>, NaN, "text", "hi"))>>),
      Payload(<<StatusValue(WaStatus("m1", "", "read"))>>),
      Payload(<<StatusValue(WaStatus("m9", "", "read"))>>),
      NoEntryPayload }


\* one message, and status requests for it from every entry point
RaceStatuses == {"sent", "delivered", "read"}
RacePayloads ==
    { Payload(<<MessageValue("Ann", WaMessage("m1", User, <<>>, 1, "text", "hi"))>>) }
    \cup { Payload(<<StatusValue(WaStatus("m1", "", status))>>) : status \in RaceStatuses }


\* one message from upstream, and the statuses upstream reports for it
TimerRacePayloads ==
    { Payload(<<MessageValue("Ann", WaMessage("m1", User, <<>>, 1, "text", "hi"))>>),
      Payload(<<StatusValue(WaStatus("m1", "", "delivered"))>>),
      Payload(<<StatusValue(WaStatus("m1", "", "read"))>>) }


\* envelopes with nothing to process: no entry, an entry without changes, a
\* change without a value, a value with neither messages nor statuses
NoOpPayloads ==
    { NoEntryPayload,
      Payload(<<>>),
      Payload(<<NoValue>>),
      Payload(<<WaValue(NoMetadata, "Ann", FALSE, <<>>, FALSE, <<>>)>>) }

\* envelopes of every shape: the ones above, and a message and a status
BasePayloads ==
    { Payload(<<MessageValue("Ann", WaMessage("m1", User, <<>>, 1, "text", "hi"))>>),
      Payload(<<StatusValue(WaStatus("m1", "", "read"))>>) }

\* a message without an id, a status with neither id nor meta_msg_id, and a
\* status that names its message by meta_msg_id alone
NoIdMessagePayload ==
    Payload(<<MessageValue("Ann", WaMessage("", User, <<>>, 1, "text", "hi"))>>)
NoIdStatusPayload == Payload(<<StatusValue(WaStatus("", "", "read"))>>)
MetaIdStatusPayload == Payload(<<StatusValue(WaStatus("", "m1", "delivered"))>>)

IdPayloads == {NoIdMessagePayload, NoIdStatusPayload, MetaIdStatusPayload}

\* { metaData: { entry: [...] } } with the entries given
Envelope(entries) == [entry |-> entries]

\* envelopes that carry more than one element: two messages, two statuses,
\* two changes, two entries
TwoMessagesPayload ==
    Payload(<<WaValue(NoMetadata, "Bob", TRUE,
                      <<WaMessage("m2", User2, <<>>, 2, "text", "ho"),
                        WaMessage("m3", User2, <<>>, 3, "text", "hu")>>, FALSE, <<>>)>>)
TwoStatusesPayload ==
    Payload(<<WaValue(NoMetadata, "", FALSE, <<>>, TRUE,
                      <<WaStatus("m2", "", "delivered"), WaStatus("m1", "", "read")>>)>>)
TwoChangesPayload ==
    Payload(<<StatusValue(WaStatus("m2", "", "read")),
              MessageValue("Bob", WaMessage("m3", User2, <<>>, 3, "text", "hu"))>>)
TwoEntriesPayload ==
    Envelope(<<[changes |-> <<[value |-> StatusValue(WaStatus("m2", "", "sent"))]>>],
               [changes |-> <<[value |-> MessageValue("Bob", WaMessage("m3", User2, <<>>, 3,
                                                                     "text", "hu"))]>>]>>)

BatchPayloads ==
    {TwoMessagesPayload, TwoStatusesPayload, TwoChangesPayload, TwoEntriesPayload}

EnvelopePayloads == NoOpPayloads \cup BasePayloads \cup IdPayloads \cup BatchPayloads


\* envelopes whose value has a messages list and a statuses list: the
\* messages list holds a new message, or a stored one, or nothing
BothPayloads ==
    { Payload(<<WaValue(NoMetadata, "Bob", TRUE,
                        <<WaMessage("m2", User2, <<>>, 2, "text", "ho")>>,
                        TRUE, <<WaStatus("m1", "", "read")>>)>>),
      Payload(<<WaValue(NoMetadata, "Ann", TRUE,
                        <<WaMessage("m1", User, <<>>, 1, "text", "hi")>>,
                        TRUE, <<WaStatus("m1", "", "delivered")>>)>>),
      Payload(<<WaValue(NoMetadata, "", TRUE, <<>>,
                        TRUE, <<WaStatus("m1", "", "read")>>)>>) }

\* the message that the status requests of the order check are about
OrderPayloads ==
    { Payload(<<MessageValue("Ann", WaMessage("m1", User, <<>>, 1, "text", "hi"))>>) }

\* a message of each type, with and without its content; one image that
\* carries a text body beside its missing caption
BodyMessages ==
    { WaMessage("t1", User, <<>>, 1, "text", "hi"),
      WaMessage("t2", User, <<>>, 1, "text", ""),
      WaMessage("i1", User, <<>>, 1, "image", "cap"),
      WaMessage("i2", User, <<>>, 1, "image", ""),
      [WaMessage("i3", User, <<>>, 1, "image", "") EXCEPT !.textBody = "hi"],
      WaMessage("d1", User, <<>>, 1, "document", "f.pdf"),
      WaMessage("d2", User, <<>>, 1, "document", ""),
      WaMessage("v1", User, <<>>, 1, "video", "clip"),
      WaMessage("v2", User, <<>>, 1, "video", ""),
      WaMessage("a1", User, <<>>, 1, "audio", ""),
      WaMessage("s1", User, <<>>, 1, "sticker", ""),
      WaMessage("l1", User, <<>>, 1, "location", "") }

BodyPayloads == { Payload(<<MessageValue("Ann", message)>>) : message \in BodyMessages }


\* messages of the user and of the business, in envelopes with and without
\* a contact's profile name
NamePayloads ==
    { Payload(<<MessageValue("Ann", WaMessage("m1", User, <<>>, 1, "text", "hi"))>>),
      Payload(<<MessageValue("", WaMessage("m2", User, <<>>, 2, "text", "ho"))>>),
      Payload(<<MessageValue("", WaMessage("m3", DefaultBusinessNumber, User, 3, "text", "yo"))>>),
      Payload(<<MessageValue("Ann", WaMessage("m4", DefaultBusinessNumber, User, 4, "text",
                                              "ok"))>>) }


RequestStatuses == {"sent", "delivered", "read", "failed"}

(***************************************************************************)
(* The state machine.                                                      *)
(***************************************************************************)
\* the room every socket is in from its connection on: the one named by
\* its own id
SocketId(s) == <<s>>

\* io.emit(...), to every connected socket
everySocket(channel) == DOMAIN rooms

\* io.to(channel): the connected sockets that are in the room
receivers(channel) == {s \in DOMAIN rooms : channel \in rooms[s]}

\* io.to(channel).emit(...): the event goes to the sockets that are in the
\* room now, and is kept nowhere
Publish(e) ==
    /\ events' = Append(events, e)
    /\ inbox' = [s \in Sockets |->
                    IF s \in receivers(e.channel) THEN Append(inbox[s], e) ELSE inbox[s]]
    /\ rooms' = rooms

(***************************************************************************)
(* The timer of index.ts: simulateStatusProgression, every 15 seconds.     *)
(***************************************************************************)
SentAgeMs == 10000          \* 'sent' and older than 10 seconds
DeliveredAgeMs == 30000     \* 'delivered' and not updated for 30 seconds
SentLimit == 5              \* .limit(5)
DeliveredLimit == 3         \* .limit(3)

\* .limit(n) of a find without a sort: n of the matching documents (all of
\* them when there are no more than n), in an order that is not defined
limit(docs, n) ==
    UNION { Orderings(chosen) :
            chosen \in {T \in SUBSET docs :
                           Cardinality(T) = IF Cardinality(docs) < n
                                            THEN Cardinality(docs) ELSE n} }

\* Message.find({ status: 'sent', timestamp: { $lt: now - 10000 } }).limit(5)
findSent(st, t) ==
    limit({st[i] : i \in {j \in 1..Len(st) :
                              st[j].status = "sent" /\ st[j].timestamp < t - SentAgeMs}},
          SentLimit)

\* Message.find({ status: 'delivered', updatedAt: { $lt: now - 30000 } }).limit(3)
findDelivered(st, t) ==
    limit({st[i] : i \in {j \in 1..Len(st) :
                              st[j].status = "delivered"
                              /\ st[j].updatedAt < t - DeliveredAgeMs}},
          DeliveredLimit)

\* io.to(message.conversationId).emit('message-status-updated',
\*    { messageId: message.messageId, status, updatedAt: new Date() })
timerEvent(message, status, t) ==
    Event(message.conversationId, "message-status-updated", message.messageId, status,
          t, NoDoc)

\* the timer suspended at an await, with the documents it still has to visit
\* and the clock as the run read it when it issued the store call it waits
\* for: `new Date()` and `Date.now()` are arguments of the call
TimerContinuation(pc, todo, at) ==
    [pc |-> pc, kind |-> "timer", doc |-> NoDoc, todo |-> todo, at |-> at]

\* the continuations that still owe an event
EmitPcs == {"emitNewMessage", "emitStatus", "deliveredWritten", "readWritten"}

(***************************************************************************)
(* The batch file processor, processWebhookFiles.ts (src/unnamed/part_000):*)
(* file names are sequences of one-character strings.                      *)
(***************************************************************************)
MessageWord == <<"m", "e", "s", "s", "a", "g", "e">>
StatusWord == <<"s", "t", "a", "t", "u", "s">>
JsonExt == <<".", "j", "s", "o", "n">>

\* the characters of the file names of the model, in the order of their
\* UTF-16 code units
Alphabet ==
    <<".", "0", "1", "2", "3", "4", "5", "6", "7", "8", "9", "_",
      "a", "b", "c", "d", "e", "f", "g", "h", "i", "j", "k", "l", "m",
      "n", "o", "p", "q", "r", "s", "t", "u", "v", "w", "x", "y", "z">>

CharCode(c) == CHOOSE i \in 1..Len(Alphabet) : Alphabet[i] = c

\* String.prototype.includes
includes(name, word) ==
    \E i \in 1..(Len(name) - Len(word) + 1) : SubSeq(name, i, i + Len(word) - 1) = word

\* String.prototype.endsWith
endsWith(name, suffix) ==
    /\ Len(name) >= Len(suffix)
    /\ SubSeq(name, Len(name) - Len(suffix) + 1, Len(name)) = suffix

\* the order of Array.prototype.sort() without a comparator
RECURSIVE lexLess(_, _)
lexLess(a, b) ==
    IF a = <<>> THEN b # <<>>
    ELSE IF b = <<>> THEN FALSE
    ELSE IF Head(a) = Head(b) THEN lexLess(Tail(a), Tail(b))
    ELSE CharCode(Head(a)) < CharCode(Head(b))

\* names.sort(), for names that differ from one another
sort(names) ==
    CHOOSE f \in Orderings(names) : \A i, j \in 1..Len(f) : i < j => lexLess(f[i], f[j])

\* [...messageFiles, ...statusFiles, ...otherFiles]
sortedFiles(files) ==
    sort({f \in files : includes(f, MessageWord)})
        \o sort({f \in files : includes(f, StatusWord)})
        \o sort({f \in files : ~includes(f, MessageWord) /\ ~includes(f, StatusWord)})

\* a file of the directory: its name, whether JSON.parse accepts its
\* content, and the payload it then yields
File(name, parses, payload) == [name |-> name, parses |-> parses, payload |-> payload]

fileNamed(dir, name) == CHOOSE f \in dir : f.name = name

\* fs.readdirSync(filesDir).filter((file) => file.endsWith(".json"))
jsonFiles(dir) == {f.name : f \in {g \in dir : endsWith(g.name, JsonExt)}}

\* the script suspended at an await of its loop: the directory it read, the
\* files still to process, what it did with each file so far, its counters
BatchContinuation(pc, doc, dir, todo, log, successCount, errorCount) ==
    [pc |-> pc, kind |-> "batch", doc |-> doc, dir |-> dir, todo |-> todo, log |-> log,
     successCount |-> successCount, errorCount |-> errorCount]

\* the script counts a file: successCount++ after processWebhookPayload
\* returned, errorCount++ in the catch block
counted(h, outcome) ==
    BatchContinuation("nextFile", NoDoc, h.dir, Tail(h.todo),
                      Append(h.log, [name |-> Head(h.todo), outcome |-> outcome]),
                      h.successCount + (IF outcome = "threw" THEN 0 ELSE 1),
                      h.errorCount + (IF outcome = "threw" THEN 1 ELSE 0))

\* the processing summary the script prints at its end
BatchResponse(outcome, h) ==
    [kind |-> "batch", outcome |-> outcome, code |-> 0, files |-> jsonFiles(h.dir),
     log |-> h.log, successCount |-> h.successCount, errorCount |-> h.errorCount]

\* a handler suspended at an await: where it resumes and what it carries
Continuation(pc, kind, doc) == [pc |-> pc, kind |-> kind, doc |-> doc]

\* what a caller is told: the handler, how it ended, the HTTP status (0 for
\* a socket handler, which answers nobody)
Response(kind, outcome, code) == [kind |-> kind, outcome |-> outcome, code |-> code]

Init ==
    /\ store = <<>>
    /\ events = <<>>
    /\ pending = EmptyBag
    /\ response = Response("none", "none", 0)
    /\ now = 0
    /\ rooms = <<>>
    /\ inbox = [s \in Sockets |-> <<>>]

Suspended(pcs) == {h \in BagToSet(pending) : h.pc \in pcs}

Count(pcs) ==
    LET hs == Suspended(pcs)
        RECURSIVE Sum(_)
        Sum(S) == IF S = {} THEN 0
                  ELSE LET h == CHOOSE x \in S : TRUE
                       IN  CopiesIn(h, pending) + Sum(S \ {h})
    IN  Sum(hs)

\* the events that two status requests publish
MaxOrderEvents == 2

\* room for what a step started now will still insert or publish
WithinBoundsOf(r, maxEvents) ==
    /\ r.pc # "idle" => BagCardinality(pending) < MaxPending
    /\ Len(r.store) + Count({"save"}) + (IF r.pc = "save" THEN 1 ELSE 0) <= MaxStore
    /\ r.pc \in EmitPcs => Len(events) + Count(EmitPcs) < maxEvents

WithinBounds(r) == WithinBoundsOf(r, MaxEvents)

\* a handler starts and runs to its first await that others can interleave
\* with, or to its end
BeginWithin(kind, r, maxEvents) ==
    /\ WithinBoundsOf(r, maxEvents)
    /\ store' = r.store
    /\ IF r.pc = "idle"
       THEN /\ pending' = pending
            /\ response' = Response(kind, r.outcome, r.code)
       ELSE /\ pending' = pending (+) SetToBag({Continuation(r.pc, kind, r.doc)})
            /\ response' = response
    /\ UNCHANGED <<events, now, rooms, inbox>>

Begin(kind, r) == BeginWithin(kind, r, MaxEvents)

\* a suspended handler resumes and runs to its end
Resume(h, outcome, code) ==
    /\ pending' = pending (-) SetToBag({h})
    /\ response' = Response(h.kind, outcome, code)

\* POST /webhook
Webhook(payload) ==
    Begin("webhook", processWebhookPayload(payload, store, now))

\* POST /webhook while the store can or cannot be reached
WebhookOn(payload, reachable) ==
    Begin("webhook", webhookRoute(processWebhookPayloadOn(payload, store, now, reachable)))

\* processMessage resumes at save() while the store can or cannot be reached
WebhookSaveOn(h, reachable) ==
    /\ h.pc = "save"
    /\ LET r == webhookRoute(saveMessageOn(h.doc, store, now, reachable))
       IN  /\ store' = r.store
           /\ Resume(h, r.outcome, r.code)
    /\ UNCHANGED <<events, now, rooms, inbox>>

\* processMessage resumes: newMessage.save(), then the route answers
WebhookSave(h) ==
    /\ h.pc = "save"
    /\ LET r == saveMessage(h.doc, store, now)
       IN  /\ store' = r.store
           /\ Resume(h, r.outcome, r.code)
    /\ UNCHANGED <<events, now, rooms, inbox>>

\* POST /messages
SendMessage(req, random) ==
    Begin("send", sendMessage(req, random, store, now))

\* sendMessage resumes after save(): emit 'new-message', answer 201
SendEmit(h) ==
    /\ h.pc = "emitNewMessage"
    /\ Publish(newMessageEvent(h.doc))
    /\ Resume(h, "sent", 201)
    /\ UNCHANGED <<store, now>>

\* PUT /messages/:messageId/status (the route matches a non-empty :messageId)
UpdateStatus(messageId, status) ==
    /\ messageId # ""
    /\ Begin("httpStatus", updateMessageStatus(messageId, status, store, now))

\* POST /simulate-status
SimulateStatus(messageId, status) ==
    Begin("httpStatus", simulateStatusRoute(messageId, status, store, now))

\* socket 'simulate-status-update'
SocketStatus(messageId, status) ==
    Begin("socketStatus",
          simulateStatusUpdate([messageId |-> messageId, status |-> status], store, now))

\* res.json(updatedMessage): the answer of updateMessageStatus carries the
\* document that findOneAndUpdate returned
StatusResponse(h) ==
    [kind |-> h.kind, outcome |-> "emitted", code |-> 200, body |-> h.doc]

\* PUT /messages/:messageId/status and socket 'simulate-status-update' with
\* room for the events of two requests in flight together
UpdateStatusBeside(messageId, status) ==
    BeginWithin("httpStatus", updateMessageStatus(messageId, status, store, now),
                MaxOrderEvents)

SocketStatusBeside(messageId, status) ==
    BeginWithin("socketStatus",
                simulateStatusUpdate([messageId |-> messageId, status |-> status], store, now),
                MaxOrderEvents)

\* a status handler resumes after findOneAndUpdate(): emit
\* 'message-status-updated'; the HTTP handler then answers 200
StatusEmit(h) ==
    /\ h.pc = "emitStatus"
    /\ Publish(statusEvent(h.doc))
    /\ pending' = pending (-) SetToBag({h})
    /\ response' = IF h.kind = "httpStatus" THEN StatusResponse(h)
                   ELSE Response(h.kind, "emitted", 0)
    /\ UNCHANGED <<store, now>>

\* GET /conversations
GetConversations ==
    /\ \E result \in getConversations(store) :
          response' = ReadResponse("conversations", 200, result)
    /\ UNCHANGED <<store, events, pending, now, rooms, inbox>>

\* GET /conversations/:conversationId/messages
GetMessages(conversationId) ==
    /\ \E r \in getMessagesByConversation(conversationId, store) : response' = r
    /\ UNCHANGED <<store, events, pending, now, rooms, inbox>>

\* io.on('connection')
Connect(s) ==
    /\ s \notin DOMAIN rooms
    /\ rooms' = [t \in DOMAIN rooms \cup {s} |-> IF t = s THEN {SocketId(s)} ELSE rooms[t]]
    /\ UNCHANGED <<store, events, pending, response, now, inbox>>

\* socket.on('disconnect'): the socket is in no room any more
Disconnect(s) ==
    /\ s \in DOMAIN rooms
    /\ rooms' = [t \in DOMAIN rooms \ {s} |-> rooms[t]]
    /\ UNCHANGED <<store, events, pending, response, now, inbox>>

\* socket.on('join-conversation')
JoinConversation(s, conversationId) ==
    /\ s \in DOMAIN rooms
    /\ rooms' = [rooms EXCEPT ![s] = @ \cup {conversationId}]
    /\ UNCHANGED <<store, events, pending, response, now, inbox>>

\* socket.on('leave-conversation')
LeaveConversation(s, conversationId) ==
    /\ s \in DOMAIN rooms
    /\ rooms' = [rooms EXCEPT ![s] = @ \ {conversationId}]
    /\ UNCHANGED <<store, events, pending, response, now, inbox>>

\* setInterval fires: simulateStatusProgression starts, whether or not the
\* run before it is over, reads the clock for the filter of its first find
\* (Date.now() - 10000) and issues the find
TimerStart ==
    /\ BagCardinality(pending) < MaxPending
    /\ pending' = pending (+) SetToBag({TimerContinuation("findSent", <<>>, now)})
    /\ UNCHANGED <<store, events, response, now, rooms, inbox>>

\* the store applies the first find, with the filter as the run issued it
TimerFindSent(h) ==
    /\ h.pc = "findSent"
    /\ \E found \in findSent(store, h.at) :
          pending' = (pending (-) SetToBag({h}))
                        (+) SetToBag({TimerContinuation("sentFound", found, h.at)})
    /\ UNCHANGED <<store, events, response, now, rooms, inbox>>

\* what the run does when it is through with the first loop's messages so
\* far: the updateOne of the next one, with updatedAt: new Date() read now,
\* or, after the last one, the second find, with Date.now() - 30000 read now
afterSent(todo, t) ==
    IF todo # <<>> THEN TimerContinuation("deliver", todo, t)
    ELSE TimerContinuation("findDelivered", <<>>, t)

\* the reply of the first find reaches the run: the first loop begins
TimerSentFound(h) ==
    /\ h.pc = "sentFound"
    /\ pending' = (pending (-) SetToBag({h})) (+) SetToBag({afterSent(h.todo, now)})
    /\ UNCHANGED <<store, events, response, now, rooms, inbox>>

\* the first loop: the store applies the updateOne of the 'sent' message
\* the run is at, with the updatedAt the run gave it
TimerDeliver(h) ==
    /\ h.pc = "deliver"
    /\ Len(events) + Count(EmitPcs) < MaxEvents
    /\ store' = SetStatusById(store, Head(h.todo)._id, "delivered", h.at)
    /\ pending' = (pending (-) SetToBag({h}))
                      (+) SetToBag({TimerContinuation("deliveredWritten", h.todo, h.at)})
    /\ UNCHANGED <<events, response, now, rooms, inbox>>

\* the first loop after its updateOne: emit, and on to the next message
TimerDeliverEmit(h) ==
    /\ h.pc = "deliveredWritten"
    /\ Publish(timerEvent(Head(h.todo), "delivered", now))
    /\ pending' = (pending (-) SetToBag({h})) (+) SetToBag({afterSent(Tail(h.todo), now)})
    /\ UNCHANGED <<store, response, now>>

\* the store applies the second find, with the filter as the run issued it
TimerFindDelivered(h) ==
    /\ h.pc = "findDelivered"
    /\ \E found \in findDelivered(store, h.at) :
          pending' = (pending (-) SetToBag({h}))
                        (+) SetToBag({TimerContinuation("deliveredFound", found, h.at)})
    /\ UNCHANGED <<store, events, response, now, rooms, inbox>>

\* what the run does when it is through with the second loop's messages so
\* far: the updateOne of the next one, with updatedAt: new Date() read now,
\* or, after the last one, nothing more
afterDelivered(todo, t) ==
    IF todo # <<>> THEN SetToBag({TimerContinuation("read", todo, t)}) ELSE EmptyBag

\* the reply of the second find reaches the run: the second loop begins
TimerDeliveredFound(h) ==
    /\ h.pc = "deliveredFound"
    /\ pending' = (pending (-) SetToBag({h})) (+) afterDelivered(h.todo, now)
    /\ UNCHANGED <<store, events, response, now, rooms, inbox>>

\* the second loop: the store applies the updateOne of the 'delivered'
\* message the run is at, with the updatedAt the run gave it
TimerRead(h) ==
    /\ h.pc = "read"
    /\ Len(events) + Count(EmitPcs) < MaxEvents
    /\ store' = SetStatusById(store, Head(h.todo)._id, "read", h.at)
    /\ pending' = (pending (-) SetToBag({h}))
                      (+) SetToBag({TimerContinuation("readWritten", h.todo, h.at)})
    /\ UNCHANGED <<events, response, now, rooms, inbox>>

\* the second loop after its updateOne: emit, and on to the next message
TimerReadEmit(h) ==
    /\ h.pc = "readWritten"
    /\ Publish(timerEvent(Head(h.todo), "read", now))
    /\ pending' = (pending (-) SetToBag({h})) (+) afterDelivered(Tail(h.todo), now)
    /\ UNCHANGED <<store, response, now>>

\* the directories the script may find: message and status files under
\* their usual names, a status file whose name has both words, a file that
\* is not JSON inside, a file that is not .json, no .json file at all
Directories ==
    { { File(MessageWord \o <<"_", "1">> \o JsonExt, TRUE,
             Payload(<<MessageValue("Ann", WaMessage("m1", User, <<>>, 1, "text", "hi"))>>)),
        File(StatusWord \o <<"_", "1">> \o JsonExt, TRUE,
             Payload(<<StatusValue(WaStatus("m1", "", "read"))>>)) },
      { File(<<"a", "_">> \o MessageWord \o <<"_">> \o StatusWord \o JsonExt, TRUE,
             Payload(<<StatusValue(WaStatus("m1", "", "delivered"))>>)),
        File(<<"b", "_">> \o MessageWord \o JsonExt, TRUE,
             Payload(<<MessageValue("Ann", WaMessage("m1", User, <<>>, 1, "text", "hi"))>>)) },
      { File(<<"a">> \o JsonExt, FALSE, NoEntryPayload),
        File(MessageWord \o <<"_", "2">> \o JsonExt, TRUE,
             Payload(<<MessageValue("", WaMessage("m2", User, <<>>, 2, "undefined", ""))>>)),
        File(<<"z">> \o JsonExt, TRUE,
             Payload(<<MessageValue("Bob", WaMessage("m3", User2, <<>>, 3, "text", "ho"))>>)) },
      { File(<<"n", "o", "t", "e", "s", ".", "t", "x", "t">>, TRUE, NoEntryPayload) } }

\* the script starts: it reads the directory and orders its .json files;
\* without any it exits
BatchStart(dir) ==
    /\ BagCardinality(pending) < MaxPending
    /\ \A h \in BagToSet(pending) : h.kind # "batch"
    /\ LET h == BatchContinuation("nextFile", NoDoc, dir, sortedFiles(jsonFiles(dir)),
                                  <<>>, 0, 0)
       IN  IF jsonFiles(dir) = {}
           THEN /\ response' = BatchResponse("noFiles", h)
                /\ pending' = pending
           ELSE /\ response' = response
                /\ pending' = pending (+) SetToBag({h})
    /\ UNCHANGED <<store, events, now, rooms, inbox>>

\* the loop of the script: the next file is read, parsed and handed to
\* processWebhookPayload; after the last file the summary is printed
BatchFile(h) ==
    /\ h.pc = "nextFile"
    /\ IF h.todo = <<>>
       THEN /\ response' = BatchResponse("done", h)
            /\ pending' = pending (-) SetToBag({h})
            /\ store' = store
       ELSE LET file == fileNamed(h.dir, Head(h.todo))
                r == processWebhookPayload(file.payload, store, now)
            IN  /\ response' = response
                /\ IF ~file.parses
                   THEN /\ store' = store
                        /\ pending' = (pending (-) SetToBag({h}))
                                          (+) SetToBag({counted(h, "threw")})
                   ELSE IF r.pc = "save"
                   THEN /\ Len(store) + Count({"save", "batchSave"}) < MaxStore
                        /\ store' = store
                        /\ pending' = (pending (-) SetToBag({h}))
                               (+) SetToBag({[h EXCEPT !.pc = "batchSave", !.doc = r.doc]})
                   ELSE /\ store' = r.store
                        /\ pending' = (pending (-) SetToBag({h}))
                                          (+) SetToBag({counted(h, r.outcome)})
    /\ UNCHANGED <<events, now, rooms, inbox>>

\* processMessage resumes inside the script: newMessage.save()
BatchSave(h) ==
    /\ h.pc = "batchSave"
    /\ LET r == saveMessage(h.doc, store, now)
       IN  /\ store' = r.store
           /\ pending' = (pending (-) SetToBag({h})) (+) SetToBag({counted(h, r.outcome)})
    /\ UNCHANGED <<events, response, now, rooms, inbox>>

\* time passes
Tick(t) ==
    /\ t > now
    /\ now' = t
    /\ UNCHANGED <<store, events, pending, response, rooms, inbox>>

\* emitNewMessage(message), exported by index.ts for a caller:
\* io.to(message.conversationId).emit('new-message', message), of whatever
\* message the caller passes; the store is not looked at
EmitNewMessage(message) ==
    /\ Len(events) + Count(EmitPcs) < MaxEvents
    /\ Publish(newMessageEvent(message))
    /\ UNCHANGED <<store, pending, response, now>>

\* emitStatusUpdate(conversationId, messageId, status), exported by index.ts
\* for a caller: io.to(conversationId).emit('message-status-updated',
\* { messageId, status, updatedAt: new Date() }), of whatever id and status
\* the caller passes; the store is not looked at
EmitStatusUpdate(conversationId, messageId, status) ==
    /\ Len(events) + Count(EmitPcs) < MaxEvents
    /\ Publish(Event(conversationId, "message-status-updated", messageId, status,
                     now, NoDoc))
    /\ UNCHANGED <<store, pending, response, now>>

Next ==
    \/ \E payload \in Payloads : Webhook(payload)
    \/ \E h \in BagToSet(pending) : WebhookSave(h)
    \/ \E req \in SendRequests, random \in Randoms : SendMessage(req, random)
    \/ \E h \in BagToSet(pending) : SendEmit(h)
    \/ \E messageId \in RequestIds, status \in RequestStatuses :
          UpdateStatus(messageId, status)
    \/ \E messageId \in {"m1", ""}, status \in {"read", ""} :
          SimulateStatus(messageId, status)
    \/ \E messageId \in {"m1", "m9"}, status \in {"read", "failed"} :
          SocketStatus(messageId, status)
    \/ \E h \in BagToSet(pending) : StatusEmit(h)
    \/ \E t \in Instants : Tick(t)

Spec == Init /\ [][Next]_vars

\* the two exported emit functions, which no code of the repository calls,
\* in the hands of a caller, beside the webhook and the rooms
NextApi ==
    \/ \E s \in Sockets : Connect(s)
    \/ \E s \in Sockets, conversationId \in Channels : JoinConversation(s, conversationId)
    \/ \E payload \in FanoutPayloads : Webhook(payload)
    \/ \E h \in BagToSet(pending) : WebhookSave(h)
    \/ \E message \in {store[i] : i \in 1..Len(store)}
                        \cup {NewDoc(Conv(User2), "m9", User2, DefaultBusinessNumber,
                                     0, "text", "hi", "sent", "")} :
          EmitNewMessage(message)
    \/ \E conversationId \in Channels, messageId \in RequestIds,
          status \in RequestStatuses :
          EmitStatusUpdate(conversationId, messageId, status)
    \/ \E t \in Instants : Tick(t)

SpecApi == Init /\ [][NextApi]_vars

\* the webhook alone, over the new-message envelopes in their variety
NextIngest ==
    \/ \E payload \in IngestPayloads : Webhook(payload)
    \/ \E h \in BagToSet(pending) : WebhookSave(h)
    \/ \E t \in Instants : Tick(t)

SpecIngest == Init /\ [][NextIngest]_vars

\* the webhook alone, over the two directions of one conversation
NextParties ==
    \/ \E payload \in PartyPayloads : Webhook(payload)
    \/ \E h \in BagToSet(pending) : WebhookSave(h)
    \/ \E t \in Instants : Tick(t)

SpecParties == Init /\ [][NextParties]_vars

\* the webhook and the read side
NextRead ==
    \/ \E payload \in ReadPayloads : Webhook(payload)
    \/ \E h \in BagToSet(pending) : WebhookSave(h)
    \/ GetConversations
    \/ \E conversationId \in ReadConversationIds : GetMessages(conversationId)

SpecRead == Init /\ [][NextRead]_vars

\* the sockets with their rooms, and the handlers that publish
NextFanout ==
    \/ \E s \in Sockets : Connect(s)
    \/ \E s \in Sockets : Disconnect(s)
    \/ \E s \in Sockets, conversationId \in Channels : JoinConversation(s, conversationId)
    \/ \E s \in Sockets, conversationId \in Channels : LeaveConversation(s, conversationId)
    \/ \E req \in FanoutRequests, random \in Randoms : SendMessage(req, random)
    \/ \E h \in BagToSet(pending) : SendEmit(h)
    \/ \E payload \in FanoutPayloads : Webhook(payload)
    \/ \E h \in BagToSet(pending) : WebhookSave(h)
    \/ \E messageId \in {"m1"}, status \in {"read"} : UpdateStatus(messageId, status)
    \/ \E h \in BagToSet(pending) : StatusEmit(h)

SpecFanout == Init /\ [][NextFanout]_vars

\* direct sends beside the webhook
NextSend ==
    \/ \E payload \in SendPayloads : Webhook(payload)
    \/ \E h \in BagToSet(pending) : WebhookSave(h)
    \/ \E req \in SendRequests, random \in Randoms : SendMessage(req, random)
    \/ \E h \in BagToSet(pending) : SendEmit(h)
    \/ \E t \in Instants : Tick(t)

SpecSend == Init /\ [][NextSend]_vars

\* every operation that writes to the collection, the timer among them
NextTimer ==
    \/ \E payload \in TimerPayloads : Webhook(payload)
    \/ \E h \in BagToSet(pending) : WebhookSave(h)
    \/ \E req \in FanoutRequests, random \in Randoms : SendMessage(req, random)
    \/ \E h \in BagToSet(pending) : SendEmit(h)
    \/ \E messageId \in {"m1"}, status \in {"sent"} : UpdateStatus(messageId, status)
    \/ \E messageId \in {"m1"}, status \in {"failed"} : SocketStatus(messageId, status)
    \/ \E h \in BagToSet(pending) : StatusEmit(h)
    \/ TimerStart
    \/ \E h \in BagToSet(pending) : TimerFindSent(h)
    \/ \E h \in BagToSet(pending) : TimerSentFound(h)
    \/ \E h \in BagToSet(pending) : TimerDeliver(h)
    \/ \E h \in BagToSet(pending) : TimerDeliverEmit(h)
    \/ \E h \in BagToSet(pending) : TimerFindDelivered(h)
    \/ \E h \in BagToSet(pending) : TimerDeliveredFound(h)
    \/ \E h \in BagToSet(pending) : TimerRead(h)
    \/ \E h \in BagToSet(pending) : TimerReadEmit(h)
    \/ \E t \in TimerInstants : Tick(t)

SpecTimer == Init /\ [][NextTimer]_vars

\* the HTTP handlers that check their request, beside the webhook
NextValidation ==
    \/ \E payload \in FanoutPayloads : Webhook(payload)
    \/ \E h \in BagToSet(pending) : WebhookSave(h)
    \/ \E req \in ValidationRequests, random \in Randoms : SendMessage(req, random)
    \/ \E h \in BagToSet(pending) : SendEmit(h)
    \/ \E messageId \in ValidationIds, status \in ValidationStatuses :
          UpdateStatus(messageId, status)
    \/ \E messageId \in ValidationIds, status \in ValidationStatuses :
          SimulateStatus(messageId, status)
    \/ \E h \in BagToSet(pending) : StatusEmit(h)
    \/ \E t \in Instants : Tick(t)

SpecValidation == Init /\ [][NextValidation]_vars

\* the webhook over envelopes that throw, with a store that may fail
NextFailure ==
    \/ \E payload \in FailurePayloads, reachable \in BOOLEAN : WebhookOn(payload, reachable)
    \/ \E h \in BagToSet(pending), reachable \in BOOLEAN : WebhookSaveOn(h, reachable)
    \/ \E t \in Instants : Tick(t)

SpecFailure == Init /\ [][NextFailure]_vars

\* status requests for one message from the webhook, HTTP and a socket
NextRace ==
    \/ \E payload \in RacePayloads : Webhook(payload)
    \/ \E h \in BagToSet(pending) : WebhookSave(h)
    \/ \E status \in RaceStatuses : UpdateStatusBeside("m1", status)
    \/ \E status \in RaceStatuses : SocketStatusBeside("m1", status)
    \/ \E h \in BagToSet(pending) : StatusEmit(h)
    \/ \E t \in Instants : Tick(t)

SpecRace == Init /\ [][NextRace]_vars

\* the timer beside the status envelopes of the webhook
NextTimerRace ==
    \/ \E payload \in TimerRacePayloads : Webhook(payload)
    \/ \E h \in BagToSet(pending) : WebhookSave(h)
    \/ TimerStart
    \/ \E h \in BagToSet(pending) : TimerFindSent(h)
    \/ \E h \in BagToSet(pending) : TimerSentFound(h)
    \/ \E h \in BagToSet(pending) : TimerDeliver(h)
    \/ \E h \in BagToSet(pending) : TimerDeliverEmit(h)
    \/ \E h \in BagToSet(pending) : TimerFindDelivered(h)
    \/ \E h \in BagToSet(pending) : TimerDeliveredFound(h)
    \/ \E h \in BagToSet(pending) : TimerRead(h)
    \/ \E h \in BagToSet(pending) : TimerReadEmit(h)
    \/ \E t \in TimerInstants : Tick(t)

SpecTimerRace == Init /\ [][NextTimerRace]_vars

\* the webhook alone, over envelopes of every shape
NextEnvelope ==
    \/ \E payload \in EnvelopePayloads : Webhook(payload)
    \/ \E h \in BagToSet(pending) : WebhookSave(h)
    \/ \E t \in Instants : Tick(t)

SpecEnvelope == Init /\ [][NextEnvelope]_vars

\* the webhook alone, over messages of every type
NextBody ==
    \/ \E payload \in BodyPayloads : Webhook(payload)
    \/ \E h \in BagToSet(pending) : WebhookSave(h)

SpecBody == Init /\ [][NextBody]_vars

\* the webhook alone, over envelopes with and without a contact
NextNames ==
    \/ \E payload \in NamePayloads : Webhook(payload)
    \/ \E h \in BagToSet(pending) : WebhookSave(h)
    \/ \E t \in Instants : Tick(t)

SpecNames == Init /\ [][NextNames]_vars

\* the batch file processor, run after run
NextBatch ==
    \/ \E dir \in Directories : BatchStart(dir)
    \/ \E h \in BagToSet(pending) : BatchFile(h)
    \/ \E h \in BagToSet(pending) : BatchSave(h)
    \/ \E t \in Instants : Tick(t)

SpecBatch == Init /\ [][NextBatch]_vars

\* the webhook alone, over envelopes that carry messages and statuses
NextBoth ==
    \/ \E payload \in BothPayloads : Webhook(payload)
    \/ \E h \in BagToSet(pending) : WebhookSave(h)
    \/ \E t \in Instants : Tick(t)

SpecBoth == Init /\ [][NextBoth]_vars

\* two status requests for one stored message, each resuming after its
\* findOneAndUpdate when the answer of the store reaches it
NextOrder ==
    \/ \E payload \in OrderPayloads : Webhook(payload)
    \/ \E h \in BagToSet(pending) : WebhookSave(h)
    \/ \E status \in {"delivered", "read"} : UpdateStatusBeside("m1", status)
    \/ \E status \in {"delivered", "read"} : SocketStatusBeside("m1", status)
    \/ \E h \in BagToSet(pending) : StatusEmit(h)
    \/ \E t \in Instants : Tick(t)

SpecOrder == Init /\ [][NextOrder]_vars

(***************************************************************************)
(* Properties.                                                             *)
(***************************************************************************)
\* the value an envelope's first change carries
ValueOf(payload) == payload.entry[1].changes[1].value

\* the ids an upstream envelope of the model may carry
EnvelopeIds == {ValueOf(payload).messages[1].id : payload \in MessagePayloads \cup IngestPayloads}

Last(seq) == seq[Len(seq)]

\* C1: a new-message envelope whose id is already stored is a no-op: the
\* collection (record count and every field of every record, status and
\* updatedAt included), the published events and the suspended handlers are
\* unchanged, and the route answers 200, not the 500 of an exception.
C1_DuplicateIsNoOp ==
    [][\A payload \in MessagePayloads :
          (/\ Matching(store, ValueOf(payload).messages[1].id) # {}
           /\ Webhook(payload))
          => /\ store' = store
             /\ events' = events
             /\ pending' = pending
             /\ response' = Response("webhook", "duplicate", 200)]_vars

\* a duplicate was skipped after the clock had moved past the record's updatedAt
C1_Witness ==
    /\ response = Response("webhook", "duplicate", 200)
    /\ Len(store) = 1
    /\ store[1].messageId = "m1"
    /\ store[1].updatedAt < now

\* C2: no two stored messages carry the same upstream message id
\* (externalMessageId), whatever the interleaving of deliveries; two
\* concurrent deliveries of one envelope leave exactly one record.
C2_UniqueMessageId ==
    \A id \in EnvelopeIds : Cardinality(Matching(store, id)) <= 1

\* the party of an envelope's first message that is not the business, whose
\* number is 918329446654 whatever else the envelope's metadata carry
ExternalPartyOf(payload) ==
    LET message == ValueOf(payload).messages[1]
    IN  IF message.from = DefaultBusinessNumber THEN message.to ELSE message.from

\* a message that has an id, a from, a type and a timestamp
HasIdFromTypeTimestamp(message) ==
    /\ message.id # ""
    /\ message.from \notin {<<>>, Undefined}
    /\ message.type \notin {"", "undefined"}
    /\ message.timestamp # NaN

\* the same of the document built from a message (which copies the four)
DocHasIdFromTypeTimestamp(doc) ==
    /\ doc.messageId # ""
    /\ doc.from \notin {<<>>, Undefined}
    /\ doc.type \notin {"", "undefined"}
    /\ doc.timestamp # NaN

\* the step appends exactly one record, which is doc as saved
AddsExactly(doc) ==
    /\ Len(store') = Len(store) + 1
    /\ SubSeq(store', 1, Len(store)) = store
    /\ Last(store') = [doc EXCEPT !._id = Len(store) + 1, !.updatedAt = now]

\* the step suspends one handler at save() with a record for the envelope:
\* its id, status 'sent', the conversation of the external party alone
SuspendsSaveOf(payload) ==
    \E doc \in {h.doc : h \in BagToSet(pending')} :
        /\ pending' = pending (+) SetToBag({Continuation("save", "webhook", doc)})
        /\ doc.messageId = ValueOf(payload).messages[1].id
        /\ doc.status = "sent"
        /\ doc.conversationId = ConvPrefix \o ExternalPartyOf(payload)
        /\ store' = store

\* C3: every new-message envelope whose first message has an id, a from, a
\* type and a timestamp, and whose id is not stored, adds exactly one
\* record, with messageId the envelope's id, status 'sent' and conversationId
\* "conv_" + the non-business party's number, whatever the envelope's
\* metadata.
C3_ValidEnvelopeAddsOneRecord ==
    [][/\ \A payload \in IngestPayloads \cup PartyPayloads :
             (/\ HasIdFromTypeTimestamp(ValueOf(payload).messages[1])
              /\ Matching(store, ValueOf(payload).messages[1].id) = {}
              /\ Webhook(payload))
             => SuspendsSaveOf(payload)
       /\ \A h \in BagToSet(pending) :
             (DocHasIdFromTypeTimestamp(h.doc) /\ WebhookSave(h)) => AddsExactly(h.doc)
      ]_vars

\* pending < sent < delivered < read
Rank(status) ==
    CASE status = "pending" -> 0
      [] status = "sent" -> 1
      [] status = "delivered" -> 2
      [] status = "read" -> 3

\* C4: no step moves a stored status backward in pending < sent < delivered
\* < read, and a status that is 'read' never changes again.
C4_StatusNeverMovesBackward ==
    [][\A i \in 1..Len(store) :
          /\ store[i].status = "read" => store'[i].status = "read"
          /\ (store[i].status \in SchemaStatuses /\ store'[i].status \in SchemaStatuses)
                => Rank(store'[i].status) >= Rank(store[i].status)]_vars

\* the message ids and status strings a status request of the model may carry
StatusRequestIds == {"m1", "m9"}
StatusRequestStatuses == {"sent", "delivered", "read", "failed", ""}
RecognisedStatuses == {"sent", "delivered", "read"}

\* the step is a status envelope for messageId with status, through the webhook
WebhookStatusStep(messageId, status) ==
    \E payload \in StatusPayloads :
        /\ OrElse(ValueOf(payload).statuses[1].id,
                  ValueOf(payload).statuses[1].meta_msg_id) = messageId
        /\ ValueOf(payload).statuses[1].status = status
        /\ Webhook(payload)

\* the same through PUT /messages/:messageId/status or POST /simulate-status
HttpStatusStep(messageId, status) ==
    UpdateStatus(messageId, status) \/ SimulateStatus(messageId, status)

\* the same through any entry point
StatusStep(messageId, status) ==
    \/ WebhookStatusStep(messageId, status)
    \/ HttpStatusStep(messageId, status)
    \/ SocketStatus(messageId, status)

\* the status envelopes of the model for messageId with status
StatusPayloadsFor(messageId, status) ==
    {payload \in StatusPayloads :
        /\ OrElse(ValueOf(payload).statuses[1].id,
                  ValueOf(payload).statuses[1].meta_msg_id) = messageId
        /\ ValueOf(payload).statuses[1].status = status}

\* what each entry point makes of a status request in the current state
StatusRequestResults(messageId, status) ==
    {processWebhookPayload(payload, store, now) :
        payload \in StatusPayloadsFor(messageId, status)}
    \cup {updateMessageStatus(messageId, status, store, now),
          simulateStatusRoute(messageId, status, store, now),
          simulateStatusUpdate([messageId |-> messageId, status |-> status], store, now)}

\* C5: a request for sent, delivered or read on an existing message is
\* applied, whatever the message's status was (so requests made in the order
\* sent, delivered, read are each applied and end in 'read', and 'read' on a
\* 'sent' message is applied alike by the webhook, the HTTP and the socket
\* entry point): after the write the stored status is the requested one.
C5_RecognisedStatusIsApplied ==
    \A messageId \in StatusRequestIds, status \in RecognisedStatuses :
        Matching(store, messageId) # {}
        => \A r \in StatusRequestResults(messageId, status) :
              findOne(r.store, messageId).status = status

\* m1 was moved on to 'read' over HTTP and the event went out
C5_Witness ==
    /\ response.kind = "httpStatus"
    /\ response.outcome = "emitted"
    /\ response.code = 200
    /\ findOne(store, "m1").status = "read"
    /\ events # <<>>
    /\ Last(events).name = "message-status-updated"
    /\ Last(events).status = "read"

\* C6 (frame part): a status request whose status is not sent, delivered or
\* read changes no stored record, at any entry point.
C6_UnrecognisedStatusNeverMutates ==
    [][\A messageId \in StatusRequestIds,
          status \in StatusRequestStatuses \ RecognisedStatuses :
          StatusStep(messageId, status) => store' = store]_vars

\* C7: a status request for an id that no stored message has is answered
\* 'not found' (404), changes nothing, publishes nothing, throws nothing, at
\* whichever entry point it comes in.
C7_UnknownIdReportsNotFound ==
    [][\A messageId \in StatusRequestIds, status \in RecognisedStatuses :
          (Matching(store, messageId) = {} /\ StatusStep(messageId, status))
          => /\ store' = store
             /\ events' = events
             /\ pending' = pending
             /\ response'.outcome = "notFound"
             /\ response'.code = 404]_vars

\* C8: a status envelope that changes the status of an existing message
\* publishes 'message-status-updated' with the message id, the new status and
\* the record's updatedAt to the message's conversation and to no other.
C8_WebhookStatusPublishes ==
    [][\A messageId \in StatusRequestIds, status \in RecognisedStatuses :
          (/\ Matching(store, messageId) # {}
           /\ findOne(store, messageId).status # status
           /\ WebhookStatusStep(messageId, status))
          => events' = Append(events, statusEvent(findOne(store', messageId)))]_vars

\* C9: an insert by processMessage publishes 'new-message' carrying the
\* stored message to its conversation.
C9_WebhookInsertPublishes ==
    [][\A h \in BagToSet(pending) :
          (WebhookSave(h) /\ Len(store') = Len(store) + 1)
          => events' = Append(events, newMessageEvent(Last(store')))]_vars

\* the party of a stored message that is not the business
ExternalPartyOfRecord(doc) ==
    IF doc.from = DefaultBusinessNumber THEN doc.to ELSE doc.from

\* C10: every conversationId stored by processMessage is
\* getConversationId(userNumber, businessNumber), "conv_" + the normalised
\* number, so that '+51' and '51' share a conversation.
C10_ConversationIdIsNormalised ==
    \A i \in 1..Len(store) :
        store[i].conversationId =
            getConversationId(ExternalPartyOfRecord(store[i]), DefaultBusinessNumber)

\* C11: the messages between the business number and the user, whichever of
\* the two sent them and whatever metadata the envelope carried, are all
\* stored under "conv_" + the user's number, never under "conv_" alone or
\* "conv_" + the business number.
C11_BothDirectionsShareConversation ==
    \A i \in 1..Len(store) :
        /\ store[i].conversationId = Conv(User)
        /\ store[i].conversationId \notin {ConvPrefix, Conv(DefaultBusinessNumber)}

\* the stored messages of a conversation
StoredOf(conversationId) ==
    {store[i] : i \in {j \in 1..Len(store) : store[j].conversationId = conversationId}}

StoredConversationIds == {store[i].conversationId : i \in 1..Len(store)}

\* GET /conversations has answered, and the collection is still as it was
AnsweredConversations ==
    /\ response.kind = "conversations"
    /\ response.body \in getConversations(store)

\* C12: whatever the order of insertion, every summary getConversations can
\* return has the greatest timestamp of its conversation's messages for
\* lastTimestamp and the body of a message with that timestamp for
\* lastMessageBody.
C12_SummaryShowsLatestMessage ==
    \A result \in getConversations(store) :
        \A k \in 1..Len(result) :
            LET docs == StoredOf(result[k].conversationId)
            IN  /\ \A d \in docs : d.timestamp <= result[k].lastTimestamp
                /\ \E d \in docs : /\ d.timestamp = result[k].lastTimestamp
                                    /\ d.body = result[k].lastMessageBody

\* the later message of a conversation was inserted first, and the summary
\* shows it
C12_Witness ==
    /\ AnsweredConversations
    /\ Len(store) = 2
    /\ store[1].conversationId = store[2].conversationId
    /\ store[1].timestamp > store[2].timestamp
    /\ response.body[1].lastMessageBody = store[1].body

\* C13: getConversations returns one summary for each conversationId of the
\* collection and no other, in an order of non-increasing lastTimestamp.
C13_OneSummaryPerConversationNewestFirst ==
    \A result \in getConversations(store) :
        /\ {result[k].conversationId : k \in 1..Len(result)} = StoredConversationIds
        /\ Len(result) = Cardinality(StoredConversationIds)
        /\ \A k, l \in 1..Len(result) :
              k < l => result[k].lastTimestamp >= result[l].lastTimestamp

\* two conversations, the older one inserted last, the newer one listed first
C13_Witness ==
    /\ AnsweredConversations
    /\ Len(response.body) = 2
    /\ store[1].conversationId = response.body[1].conversationId
    /\ store[2].conversationId = response.body[2].conversationId
    /\ response.body[1].lastTimestamp > response.body[2].lastTimestamp

\* C14: the userName of a summary is the userName of the earliest message
\* by timestamp of the conversation whose userName is not 'Business', and
\* '+' followed by the conversationId without its 'conv_' when the
\* conversation holds no such message.
C14_UserNameIsFirstCustomerOrNumber ==
    \A result \in getConversations(store) :
        \A k \in 1..Len(result) :
            LET customers == {d \in StoredOf(result[k].conversationId) :
                                 d.userName # "Business"}
            IN  IF customers = {}
                THEN result[k].userName = synthesizedName(result[k].conversationId)
                ELSE \E d \in customers :
                        /\ \A e \in customers : d.timestamp <= e.timestamp
                        /\ result[k].userName = d.userName

\* C15: messageCount is the number of stored messages of the conversation,
\* participants the set of their userNames, and the counts of all summaries
\* add up to the number of stored messages.
RECURSIVE SumOfCounts(_)
SumOfCounts(result) ==
    IF result = <<>> THEN 0 ELSE Head(result).messageCount + SumOfCounts(Tail(result))

C15_CountsAndParticipants ==
    \A result \in getConversations(store) :
        /\ \A k \in 1..Len(result) :
              /\ result[k].messageCount
                    = Cardinality(StoredOf(result[k].conversationId))
              /\ result[k].participants
                    = {d.userName : d \in StoredOf(result[k].conversationId)}
        /\ SumOfCounts(result) = Len(store)

\* a conversation of the business and a customer was summarised: two
\* messages, two participants
C15_Witness ==
    /\ AnsweredConversations
    /\ Len(response.body) = 1
    /\ response.body[1].messageCount = 2
    /\ response.body[1].participants = {"Business", "Ann"}

\* C16: getMessagesByConversation answers with the stored messages of the
\* requested conversation, each of them once and no other, in an order of
\* non-decreasing timestamp.
C16_MessagesOfConversationOldestFirst ==
    \A conversationId \in ReadConversationIds :
        \A r \in getMessagesByConversation(conversationId, store) :
            /\ r.code = 200
            /\ {r.body[i] : i \in 1..Len(r.body)} = StoredOf(conversationId)
            /\ Len(r.body) = Cardinality(StoredOf(conversationId))
            /\ \A i, j \in 1..Len(r.body) :
                  i < j => r.body[i].timestamp <= r.body[j].timestamp

\* the messages of one conversation, the later one inserted first, were
\* listed oldest first
C16_Witness ==
    /\ response.kind = "messages"
    /\ response \in getMessagesByConversation(Conv(User), store)
    /\ Len(store) = 2
    /\ Len(response.body) = 2
    /\ response.body[1].timestamp < response.body[2].timestamp
    /\ store[1] = response.body[2]
    /\ store[2] = response.body[1]

\* C17: an event goes to the sockets that are in its room when it is
\* published, to each of them once, and to no other socket; without a
\* publish (on a join, a leave, a connect) no client receives anything.
C17_DeliveredToCurrentRoomOnly ==
    [][\A s \in Sockets :
          IF events' = events THEN inbox'[s] = inbox[s]
          ELSE /\ events' = Append(events, Last(events'))
               /\ inbox'[s] = IF s \in DOMAIN rooms /\ Last(events').channel \in rooms[s]
                               THEN Append(inbox[s], Last(events'))
                               ELSE inbox[s]]_vars

\* s1 received an event of a room that s2, which is in that room by now,
\* did not receive
C17_Witness ==
    /\ events # <<>>
    /\ inbox["s1"] = events
    /\ inbox["s2"] = <<>>
    /\ "s2" \in DOMAIN rooms
    /\ events[1].channel \in rooms["s2"]

\* a request that names conversationId, from, to and body
AllPresent(req) ==
    req.conversationId # <<>> /\ req.from # <<>> /\ req.to # <<>> /\ req.body # ""

\* C18: a direct send with conversationId, from, to and body adds exactly
\* one record, with status 'sent' and a messageId that no stored message
\* had, and publishes nothing before the record is stored; its one
\* 'new-message' event then carries the saved message to the channel of its
\* conversationId.
C18_SendAddsFreshRecordThenPublishes ==
    [][/\ \A req \in SendRequests, random \in Randoms :
             (AllPresent(req) /\ SendMessage(req, random))
             => /\ Len(store') = Len(store) + 1
                /\ SubSeq(store', 1, Len(store)) = store
                /\ Last(store').status = "sent"
                /\ Last(store').conversationId = req.conversationId
                /\ Matching(store, Last(store').messageId) = {}
                /\ events' = events
                /\ pending' = pending
                       (+) SetToBag({Continuation("emitNewMessage", "send", Last(store'))})
       /\ \A h \in BagToSet(pending) :
             SendEmit(h)
             => /\ events' = Append(events, newMessageEvent(h.doc))
                /\ Last(events').channel = h.doc.conversationId
                /\ \E i \in 1..Len(store) : store[i]._id = h.doc._id
                /\ store' = store
      ]_vars

\* what a record was created with: everything but status and updatedAt
CreatedWith(doc) == [doc EXCEPT !.status = "", !.updatedAt = 0]

\* C19: no step of any operation (webhook message or status, direct send,
\* HTTP or socket status update, timer) removes a stored record or changes
\* any of its fields other than status and updatedAt.
C19_OnlyStatusAndUpdatedAtChange ==
    [][/\ Len(store') >= Len(store)
       /\ \A i \in 1..Len(store) : CreatedWith(store'[i]) = CreatedWith(store[i])]_vars

\* the timer moved m1 on to 'delivered' and published it; the record still
\* has what it was created with
C19_Witness ==
    /\ store # <<>>
    /\ store[1].messageId = "m1"
    /\ store[1].status = "delivered"
    /\ store[1].updatedAt = 15000
    /\ store[1].body = "hi"
    /\ store[1].conversationId = Conv(User)
    /\ events # <<>>
    /\ Last(events).status = "delivered"

\* C20: in every reachable state the status of every stored message is one
\* of pending, sent, delivered, read.
C20_StatusIsOfTheSchema ==
    \A i \in 1..Len(store) : store[i].status \in SchemaStatuses


\* the step answers a validation error and leaves the collection, the
\* published events, every client's inbox and the suspended handlers alone
RejectedAsInvalid(kind) ==
    /\ response' = Response(kind, "validationError", 400)
    /\ store' = store
    /\ events' = events
    /\ inbox' = inbox
    /\ pending' = pending

\* C21: a direct send without conversationId, from, to or body, and a
\* status request (PUT /messages/:messageId/status, POST /simulate-status)
\* without messageId or status, is answered 400 before the collection is
\* read or written: the collection and all channels are unchanged.
C21_MissingFieldIsRejected ==
    [][/\ \A req \in ValidationRequests, random \in Randoms :
             (~AllPresent(req) /\ SendMessage(req, random)) => RejectedAsInvalid("send")
       /\ \A messageId \in ValidationIds, status \in ValidationStatuses :
             (/\ messageId = "" \/ status = ""
              /\ UpdateStatus(messageId, status) \/ SimulateStatus(messageId, status))
             => RejectedAsInvalid("httpStatus")
       /\ \A status \in ValidationStatuses :
             updateMessageStatus("", status, store, now)
                = Step("idle", NoDoc, store, "validationError", 400)
      ]_vars

\* a send with a field missing was rejected while a message was stored and
\* one event had been published
C21_Witness ==
    /\ response = Response("send", "validationError", 400)
    /\ Len(store) = 1
    /\ Len(events) = 1

\* C22: whatever the envelope holds and whether or not the store can be
\* reached, every exception of processWebhookPayload ends in the 500 answer
\* of the /webhook route and in no unhandled rejection; a request that
\* failed leaves the collection, the events and the other handlers as they
\* were, so that the requests after it are processed as before.
C22_WebhookFailureIsAnswered500 ==
    [][/\ \A payload \in FailurePayloads, reachable \in BOOLEAN :
             WebhookOn(payload, reachable)
             => \/ /\ response' = response
                   /\ \E doc \in {h.doc : h \in BagToSet(pending')} :
                         pending' = pending
                             (+) SetToBag({Continuation("save", "webhook", doc)})
                \/ /\ response'.kind = "webhook"
                   /\ response'.code = IF response'.outcome = "threw" THEN 500 ELSE 200
                   /\ response'.outcome # "unhandledRejection"
                   /\ pending' = pending
                   /\ response'.outcome = "threw" => store' = store /\ events' = events
       /\ \A h \in BagToSet(pending), reachable \in BOOLEAN :
             WebhookSaveOn(h, reachable)
             => /\ response'.kind = "webhook"
                /\ response'.code = IF response'.outcome = "threw" THEN 500 ELSE 200
                /\ response'.outcome # "unhandledRejection"
                /\ pending' = pending (-) SetToBag({h})
                /\ response'.outcome = "threw" => store' = store /\ events' = events
                /\ ~reachable => response'.outcome = "threw"
       /\ \A payload \in FailurePayloads :
             processWebhookPayload(payload, store, now).outcome \notin WithoutStoreCall
             => webhookRoute(processWebhookPayloadOn(payload, store, now, FALSE))
                   = Step("idle", NoDoc, store, "threw", 500)
      ]_vars

\* a request failed with 500 after a message had been stored, and the one
\* handler that was suspended at that time is still suspended
C22_Witness ==
    /\ response = Response("webhook", "threw", 500)
    /\ Len(store) = 1
    /\ BagCardinality(pending) = 1

\* the single-step transitions of the status lifecycle
SingleSteps == {<<"pending", "sent">>, <<"sent", "delivered">>, <<"delivered", "read">>}

\* C23: every change of a stored message's status is one of pending -> sent,
\* sent -> delivered, delivered -> read; a request for 'read' on a message
\* that is 'sent' does not make it 'read'.
C23_OnlySingleStepTransitions ==
    [][\A i \in 1..Len(store) :
          store'[i].status # store[i].status
          => <<store[i].status, store'[i].status>> \in SingleSteps]_vars

\* the step is a status envelope of the model for m1 with status
RaceWebhookStep(status) == Webhook(Payload(<<StatusValue(WaStatus("m1", "", status))>>))

\* the step suspends one more handler, which carries doc
SuspendsWith(kind, doc) ==
    pending' = pending (+) SetToBag({Continuation("emitStatus", kind, doc)})

\* C24: status writes to one message are atomic.  Whatever other status
\* requests are in flight, a stored record changes only by the write of one
\* request, which sets status and updatedAt together and nothing else, so
\* that the stored status is always that of the request that wrote last;
\* the HTTP handler carries, and answers with, the record as it was right
\* after its own write.
C24_StatusWritesAreAtomic ==
    [][/\ \A i \in 1..Len(store) :
             store'[i] # store[i]
             => \E status \in RaceStatuses :
                   /\ store'[i] = [store[i] EXCEPT !.status = status, !.updatedAt = now]
                   /\ \/ RaceWebhookStep(status)
                      \/ UpdateStatusBeside("m1", status)
                      \/ SocketStatusBeside("m1", status)
       /\ \A status \in RaceStatuses :
             (/\ Matching(store, "m1") # {}
              /\ RaceWebhookStep(status) \/ UpdateStatusBeside("m1", status)
                    \/ SocketStatusBeside("m1", status))
             => /\ findOne(store', "m1").status = status
                /\ findOne(store', "m1").updatedAt = now
       /\ \A status \in RaceStatuses :
             (Matching(store, "m1") # {} /\ UpdateStatusBeside("m1", status))
             => SuspendsWith("httpStatus", findOne(store', "m1"))
       /\ \A h \in BagToSet(pending) :
             (h.kind = "httpStatus" /\ StatusEmit(h))
             => /\ response'.code = 200
                /\ response'.body = h.doc
                /\ store' = store
      ]_vars

\* two HTTP requests were in flight together: the one for 'read' was
\* answered with the record as its own write left it, after the later write
\* of the one for 'delivered', which has not answered yet
C24_Witness ==
    /\ response.kind = "httpStatus"
    /\ response.outcome = "emitted"
    /\ response.body.status = "read"
    /\ findOne(store, "m1").status = "delivered"
    /\ findOne(store, "m1").updatedAt > response.body.updatedAt
    /\ \E h \in BagToSet(pending) :
          /\ h.kind = "httpStatus"
          /\ h.pc = "emitStatus"
          /\ h.doc = findOne(store, "m1")

\* C25: a status update takes effect only on a record that exists when its
\* write runs.  A status envelope for m1 handled while m1 is not stored (its
\* envelope not yet received, or its handler still before save()) creates
\* no record and ends as 'not found'; the insert of m1 that follows stores
\* status 'sent', whatever status was asked for before.
C25_EarlyStatusIsLost ==
    [][/\ \A status \in RaceStatuses :
             (Matching(store, "m1") = {} /\ RaceWebhookStep(status))
             => /\ store' = store
                /\ events' = events
                /\ pending' = pending
                /\ response' = Response("webhook", "notFound", 200)
       /\ \A status \in RaceStatuses :
             (/\ Matching(store, "m1") = {}
              /\ UpdateStatus("m1", status) \/ SocketStatus("m1", status))
             => /\ store' = store
                /\ events' = events
                /\ pending' = pending
                /\ response'.outcome = "notFound"
       /\ \A h \in BagToSet(pending) :
             (WebhookSave(h) /\ h.doc.messageId = "m1")
             => /\ Len(store') = Len(store) + 1
                /\ SubSeq(store', 1, Len(store)) = store
                /\ Last(store').messageId = "m1"
                /\ Last(store').status = "sent"
      ]_vars

\* a status envelope for m1 overtook m1's insert: it ended as not found
\* while m1's handler was suspended before save(), and nothing is stored
C25_Witness ==
    /\ response = Response("webhook", "notFound", 200)
    /\ store = <<>>
    /\ \E h \in BagToSet(pending) : h.pc = "save" /\ h.doc.messageId = "m1"

\* C26: a status request for the status the message already has is a
\* no-op: the stored record, updatedAt included, is unchanged and no handler
\* is left to publish 'message-status-updated' (so that a request applied
\* twice leaves what it leaves applied once).
C26_RedundantStatusIsNoOp ==
    [][\A status \in RaceStatuses :
          (/\ Matching(store, "m1") # {}
           /\ findOne(store, "m1").status = status
           /\ RaceWebhookStep(status) \/ UpdateStatus("m1", status)
                 \/ SocketStatus("m1", status))
          => /\ store' = store
             /\ events' = events
             /\ pending' = pending]_vars

\* the stored document with the _id of doc
findById(st, doc) == st[CHOOSE i \in 1..Len(st) : st[i]._id = doc._id]

\* C27: whatever status requests run between the timer's find and its
\* writes, a write of the timer changes a status only from 'sent' to
\* 'delivered' or from 'delivered' to 'read', never to a lower one, and an
\* event of the timer never carries a status behind the stored one.
C27_TimerOnlyAdvances ==
    [][\A h \in BagToSet(pending) :
          /\ (TimerDeliver(h) \/ TimerRead(h))
             => \A i \in 1..Len(store) :
                   store'[i].status # store[i].status
                   => <<store[i].status, store'[i].status>>
                         \in {<<"sent", "delivered">>, <<"delivered", "read">>}
          /\ (TimerDeliverEmit(h) \/ TimerReadEmit(h))
             => Rank(Last(events').status) >= Rank(findById(store, Head(h.todo)).status)
      ]_vars

\* the step ends at once with a 200 answer and changes nothing else
ReturnsUnchanged(outcomes) ==
    /\ response'.kind = "webhook"
    /\ response'.outcome \in outcomes
    /\ response'.code = 200
    /\ store' = store
    /\ events' = events
    /\ inbox' = inbox
    /\ pending' = pending

\* C28: an envelope without an entry, without a changes value, or whose
\* value has neither messages nor statuses is a no-op: processWebhookPayload
\* returns without throwing (the route answers 200), the collection is
\* unchanged and no event is published.
C28_EmptyEnvelopeIsNoOp ==
    [][\A payload \in NoOpPayloads :
          Webhook(payload) => ReturnsUnchanged({"noEntry", "noValue", "unknownPayload"})]_vars

\* an envelope with neither messages nor statuses was answered 200 after a
\* message had been stored and its status changed
C28_Witness ==
    /\ response = Response("webhook", "unknownPayload", 200)
    /\ Len(store) = 1
    /\ store[1].status = "read"

\* C29: a message envelope whose first message has no id and a status
\* envelope whose first status has neither id nor meta_msg_id are dropped
\* without an exception and without a change; a status with meta_msg_id
\* alone is applied to the stored message whose messageId is that
\* meta_msg_id.
C29_MissingIdIsDroppedMetaIdApplies ==
    [][/\ Webhook(NoIdMessagePayload) => ReturnsUnchanged({"invalidMessage"})
       /\ Webhook(NoIdStatusPayload) => ReturnsUnchanged({"noMessageId"})
       /\ (Matching(store, "m1") # {} /\ Webhook(MetaIdStatusPayload))
          => /\ store' = SetStatus(store, "m1", "delivered", now)
             /\ findOne(store', "m1").status = "delivered"
             /\ response' = Response("webhook", "updated", 200)
      ]_vars

\* the status named by meta_msg_id alone was applied to m1
C29_Witness ==
    /\ response = Response("webhook", "updated", 200)
    /\ Len(store) = 1
    /\ store[1].messageId = "m1"
    /\ store[1].status = "delivered"

\* the envelope cut down to entry[0], changes[0] and the first element of
\* messages and of statuses
firstOnly(payload) ==
    LET value == payload.entry[1].changes[1].value
        FirstOf(list) == IF list = <<>> THEN <<>> ELSE <<list[1]>>
    IN  Payload(<<[value EXCEPT !.messages = FirstOf(@), !.statuses = FirstOf(@)]>>)

\* C30: an envelope creates or modifies at most one record: it is handled
\* as the envelope of its first entry, first change and first message or
\* status alone would be, and every further element leaves no trace in the
\* collection.
C30_OnlyFirstElementsAreProcessed ==
    [][/\ \A payload \in BatchPayloads :
             /\ firstOnly(payload) # payload
             /\ processWebhookPayload(payload, store, now)
                   = processWebhookPayload(firstOnly(payload), store, now)
             /\ Webhook(payload)
                => /\ Len(store') = Len(store)
                   /\ Cardinality({i \in 1..Len(store) : store'[i] # store[i]}) <= 1
                   /\ BagCardinality(pending') <= BagCardinality(pending) + 1
       /\ \A h \in BagToSet(pending) :
             WebhookSave(h)
             => /\ Len(store') <= Len(store) + 1
                /\ SubSeq(store', 1, Len(store)) = store
       /\ Matching(store', "m3") = {}
      ]_vars

\* the envelope with two statuses was handled with both messages stored:
\* its first status was applied to m2, its second left m1 as it was
C30_Witness ==
    /\ response = Response("webhook", "updated", 200)
    /\ Len(store) = 2
    /\ findOne(store, "m2").status = "delivered"
    /\ findOne(store, "m1").status = "sent"

\* the body each message of BodyMessages is to be stored with
ExpectedBody(messageId) ==
    CASE messageId = "t1" -> "hi"
      [] messageId = "t2" -> ""
      [] messageId = "i1" -> "cap"
      [] messageId = "i2" -> "[Image]"
      [] messageId = "i3" -> "[Image]"
      [] messageId = "d1" -> "f.pdf"
      [] messageId = "d2" -> "[Document]"
      [] messageId = "v1" -> "clip"
      [] messageId = "v2" -> "[Video]"
      [] messageId = "a1" -> "[Voice Message]"
      [] messageId = "s1" -> "[STICKER]"
      [] messageId = "l1" -> "[LOCATION]"

\* C31: the stored body follows from the type and the content: the text
\* body for text ('' when absent), the caption or filename of an image,
\* document or video when there is one and '[Image]', '[Document]',
\* '[Video]' otherwise, '[Voice Message]' for audio, and '[' + the type in
\* upper case + ']' for every other type.
C31_BodyFollowsTypeAndContent ==
    /\ \A i \in 1..Len(store) : store[i].body = ExpectedBody(store[i].messageId)
    /\ \A h \in BagToSet(pending) : h.doc.body = ExpectedBody(h.doc.messageId)
    /\ \A message \in BodyMessages : messageBodyOf(message) = ExpectedBody(message.id)

\* an image without a caption and a sticker were stored with their
\* placeholders
C31_Witness ==
    /\ Len(store) = 2
    /\ store[1].messageId = "i3"
    /\ store[1].body = "[Image]"
    /\ store[2].messageId = "s1"
    /\ store[2].body = "[STICKER]"

\* C32: a stored message sent by the business number has userName
\* 'Business', with or without a contact in its envelope; a message of the
\* external party has the contact's profile name when the envelope has one
\* and 'Unknown User' otherwise.
C32_BusinessIsNamedBusiness ==
    \A i \in 1..Len(store) :
        /\ store[i].from = DefaultBusinessNumber => store[i].userName = "Business"
        /\ store[i].messageId = "m1" => store[i].userName = "Ann"
        /\ store[i].messageId = "m2" => store[i].userName = "Unknown User"

\* what the script has done so far in its current run, or did in its last
BatchLogs ==
    {h.log : h \in {g \in BagToSet(pending) : g.kind = "batch"}}
        \cup (IF response.kind = "batch" THEN {response.log} ELSE {})

\* C33: in a run of the batch file processor every file whose name
\* contains 'message' is processed before any file whose name contains
\* 'status', and no status file ends as not found when the directory holds
\* the message file of its message.
C33_MessageFilesBeforeStatusFiles ==
    \A log \in BatchLogs :
        /\ \A i, j \in 1..Len(log) :
              (includes(log[i].name, StatusWord) /\ includes(log[j].name, MessageWord))
              => j < i
        /\ \A i \in 1..Len(log) :
              includes(log[i].name, StatusWord) => log[i].outcome # "notFound"

\* C37: a run of the batch file processor hands each .json file of the
\* directory to processWebhookPayload exactly once, whatever the names are
\* and whether or not an earlier file threw, and at its end successCount +
\* errorCount is the number of .json files.
C37_EachFileIsProcessedOnce ==
    /\ \A log \in BatchLogs :
          \A i, j \in 1..Len(log) : log[i].name = log[j].name => i = j
    /\ (response.kind = "batch" /\ response.outcome = "done")
       => /\ {response.log[i].name : i \in 1..Len(response.log)} = response.files
          /\ response.successCount + response.errorCount = Cardinality(response.files)

\* C35: the conversationId of every stored message is "conv_" followed by
\* a non-empty number that is the message's from or its to, whether the
\* record was created by processMessage or by a direct send.
C35_ConversationIsOfAParty ==
    \A i \in 1..Len(store) :
        \E n \in {store[i].from, store[i].to} :
            n # <<>> /\ store[i].conversationId = ConvPrefix \o n

\* C36: an envelope whose value has a messages list and a statuses list
\* goes the message path only, an empty messages list included: no status
\* of it is ever applied, and the webhook ends as the message path ends.
C36_StatusBesideMessagesIsDropped ==
    /\ \A i \in 1..Len(store) : store[i].status = "sent"
    /\ response.kind = "webhook"
       => response.outcome \in {"saving", "inserted", "duplicate", "invalidMessage"}
    /\ \A payload \in BothPayloads :
          LET value == payload.entry[1].changes[1].value
              r == processWebhookPayload(payload, store, now)
          IN  /\ r.store = store
              /\ value.messages = <<>> => r.outcome = "invalidMessage"

\* the message of an envelope with both lists is stored beside m1, and m1
\* is still 'sent' after the envelope with an empty messages list ended
C36_Witness ==
    /\ Len(store) = 2
    /\ findOne(store, "m1") # NoDoc /\ findOne(store, "m1").status = "sent"
    /\ findOne(store, "m2") # NoDoc
    /\ response = Response("webhook", "invalidMessage", 200)

\* the status of the last 'message-status-updated' event published for a
\* message, "" when there is none
RECURSIVE lastStatusEvent(_, _)
lastStatusEvent(published, messageId) ==
    IF published = <<>> THEN ""
    ELSE LET e == published[Len(published)]
         IN  IF e.name = "message-status-updated" /\ e.messageId = messageId THEN e.status
             ELSE lastStatusEvent(SubSeq(published, 1, Len(published) - 1), messageId)

\* C34: once no status request is in flight, the last 'message-status-updated'
\* event published for a message carries the status that is stored for it.
C34_LastEventIsStoredStatus ==
    pending = EmptyBag
    => \A i \in 1..Len(store) :
          lastStatusEvent(events, store[i].messageId)
              \in {"", findOne(store, store[i].messageId).status}

====
